---- MODULE Spec2Model ----
(***************************************************************************)
(* A model of the VeriSec repository: the SecurityAnchor contract, the     *)
(* storage layer (audits, findings, signatures, auditors, anchors), the    *)
(* REST routes that ingest, read and anchor audits, and the seed loader.   *)
(*                                                                         *)
(* Four specifications share the variables below:                          *)
(*   SpecAnchor  the SecurityAnchor contract called directly               *)
(*   SpecTx      insertAudit transactions interleaved statement by         *)
(*               statement on separate pooled connections                  *)
(*   Spec        the ingestion routes, one request after another           *)
(*   SpecOps     the anchor route, the seed loader and the read routes     *)
(***************************************************************************)
EXTENDS Integers, Sequences, FiniteSets, TLC

VARIABLES
    chain,      \* SecurityAnchor storage: owner, auditRoots, emitted events
    receipt,    \* outcome of the last contract call
    db,         \* committed rows of the five tables
    response,   \* the last HTTP response sent by the API
    conn,       \* per pooled connection: the insertAudit transaction it runs
    seed,       \* the seed loader process
    env,        \* process.env: the anchoring configuration keys, each an Option string
    inflight,   \* anchor requests whose transaction is mined, record not yet stored
    proofAudit, \* the audit handed to computeMerkleRoot / buildProofForFinding
    canonInput, \* the value handed to normalizeValue / stableStringify
    driver,     \* the development driver process and its API child
    ui          \* the dashboard page: selection, loaded state, requests in flight

vars == <<chain, receipt, db, response, conn, seed, env, inflight, proofAudit, canonInput, driver, ui>>

(***************************************************************************)
(* Bounds of the model.                                                    *)
(***************************************************************************)
NumAudits == 2      \* audit identifiers 1..NumAudits
MaxRoot == 2        \* bytes32 roots 0..MaxRoot in direct contract calls
MaxEvents == 3      \* contract calls are explored until this many events
NumConns == 2       \* pooled connections running insertAudit concurrently

AuditIds == 1..NumAudits

\* Option values: an absent (undefined) field is <<>>, a present one <<v>>.
None == <<>>
Some(v) == <<v>>
IsSome(o) == Len(o) > 0
Get(o) == o[1]

Range(s) == {s[i] : i \in 1..Len(s)}

\* The development driver before main() runs: no seed attempt made, no API
\* child spawned.
DriverIdle ==
    [pc |-> "idle", index |-> 1, seedRuns |-> 0, seedDelays |-> 0,
     apiProcess |-> "none", killed |-> FALSE, killCalls |-> 0,
     waited |-> 0, healthRan |-> FALSE, smokeRan |-> FALSE,
     error |-> None, exitCode |-> None]

\* The dashboard page (ClientPage) before its first render: the initial
\* values of its state hooks, nothing requested yet.
PageIdle ==
    [auditParam |-> None, audits |-> None, apiStatus |-> "online",
     audit |-> None, findings |-> None, anchors |-> None,
     anchorStatus |-> "idle", bootstrap |-> "idle",
     loads |-> {}, anchoring |-> {}, refreshing |-> 0]

(***************************************************************************)
(* SecurityAnchor.sol                                                      *)
(*                                                                         *)
(* bytes32 values are naturals, bytes32(0) is 0.  keccak256 of an audit    *)
(* id is an injective non-zero value.                                      *)
(***************************************************************************)
ZeroAddress == "0x0"
Deployer == "operator"
Senders == {Deployer, "mallory"}
Bytes32Zero == 0

keccak256Id(auditId) == 100 + auditId
IdHashes == {keccak256Id(a) : a \in AuditIds}
Uris == {"ipfs://x"}

\* constructor(): owner = msg.sender, auditRoots empty, one event.
Constructor(sender) ==
    [owner |-> sender,
     auditRoots |-> [h \in IdHashes |-> Bytes32Zero],
     events |-> << [name |-> "OwnershipTransferred", previousOwner |-> ZeroAddress,
                    newOwner |-> sender] >>]

NoReceipt == [fn |-> "none", sender |-> ZeroAddress, status |-> "none",
              auditId |-> 0, merkleRoot |-> 0, newOwner |-> ZeroAddress]

\* modifier onlyOwner with the caller's check dropped.
onlyOwner_open(st, sender) == TRUE

\* modifier onlyOwner: passes exactly when msg.sender is the owner.
onlyOwner(st, sender) == sender = st.owner

\* transferOwnership without its zero-address require.
transferOwnership_noZeroCheck(st, sender, newOwner) ==
    IF ~onlyOwner(st, sender) THEN [st |-> st, status |-> "NotOwner"]
    ELSE [st |-> [st EXCEPT !.owner = newOwner,
                            !.events = Append(@, [name |-> "OwnershipTransferred",
                                                  previousOwner |-> st.owner,
                                                  newOwner |-> newOwner])],
          status |-> "ok"]

\* transferOwnership(newOwner): the contract and the call status after it.
transferOwnership(st, sender, newOwner) ==
    IF ~onlyOwner(st, sender) THEN [st |-> st, status |-> "NotOwner"]
    ELSE IF newOwner = ZeroAddress THEN [st |-> st, status |-> "zero address"]
    ELSE [st |-> [st EXCEPT !.owner = newOwner,
                            !.events = Append(@, [name |-> "OwnershipTransferred",
                                                  previousOwner |-> st.owner,
                                                  newOwner |-> newOwner])],
          status |-> "ok"]

\* anchorAudit(auditId, merkleRoot, uri): the contract and the call status.
anchorAudit_overwrite(st, sender, auditId, merkleRoot, uri) ==
    IF ~onlyOwner(st, sender) THEN [st |-> st, status |-> "NotOwner"]
    ELSE [st |-> [st EXCEPT !.auditRoots[auditId] = merkleRoot,
                            !.events = Append(@, [name |-> "AuditAnchored",
                                                  auditId |-> auditId,
                                                  merkleRoot |-> merkleRoot,
                                                  uri |-> uri,
                                                  attester |-> sender])],
          status |-> "ok"]

anchorAudit(st, sender, auditId, merkleRoot, uri) ==
    IF ~onlyOwner(st, sender) THEN [st |-> st, status |-> "NotOwner"]
    ELSE IF st.auditRoots[auditId] # Bytes32Zero
         THEN [st |-> st, status |-> "AlreadyAnchored"]
    ELSE [st |-> [st EXCEPT !.auditRoots[auditId] = merkleRoot,
                            !.events = Append(@, [name |-> "AuditAnchored",
                                                  auditId |-> auditId,
                                                  merkleRoot |-> merkleRoot,
                                                  uri |-> uri,
                                                  attester |-> sender])],
          status |-> "ok"]

\* The AuditAnchored events emitted so far for an identifier.
AnchoredEvents(st, auditId) ==
    {i \in 1..Len(st.events) :
        /\ st.events[i].name = "AuditAnchored"
        /\ st.events[i].auditId = auditId}

(***************************************************************************)
(* Schema package: audit reports, findings, signatures.                    *)
(***************************************************************************)
AuditSchemaId == "verisec.audit.v1"

F1 == [id |-> "F-1", title |-> "reentrancy"]
F1b == [id |-> "F-1", title |-> "overflow"]
F2 == [id |-> "F-2", title |-> "access"]

\* An AuditReport: signatures is an Option (the field may be absent).
Report(auditId, findings, signatures) ==
    [schemaVersion |-> AuditSchemaId, auditId |-> auditId,
     findings |-> findings, signatures |-> signatures]

\* The compiled schema validator, as far as the shared types fix it: the
\* schemaVersion literal must be the schema id.  Finding ids need not be
\* distinct (a JSON schema cannot require it by key).
validator(payload) == payload.schemaVersion = AuditSchemaId

\* canonicalAuditMessage: the audit without its signatures field.
canonicalAuditMessage(audit) ==
    [schemaVersion |-> audit.schemaVersion, auditId |-> audit.auditId,
     findings |-> audit.findings]

NoMessage == [schemaVersion |-> "", auditId |-> 0, findings |-> <<>>]

(***************************************************************************)
(* ethers: addresses and personal-sign signatures.                         *)
(*                                                                         *)
(* "0xAa" and "0xBb" are checksummed addresses, "0xaa" and "0xbb" their    *)
(* lower-case spellings.  A signature value records the key and message it *)
(* was made with; recovery over another message yields an unrelated        *)
(* address, recovery from a malformed value throws.                        *)
(***************************************************************************)
AddrA == "0xAa"
AddrB == "0xBb"
Unrelated == "0xFf"

isAddress(v) == v \in {"0xAa", "0xaa", "0xBb", "0xbb"}
getAddress(v) == CASE v = "0xaa" -> "0xAa" [] v = "0xbb" -> "0xBb" [] OTHER -> v
AddressOf(key) == CASE key = "kA" -> AddrA [] key = "kB" -> AddrB [] OTHER -> Unrelated

Sign(key, message) == [kind |-> "sig", key |-> key, msg |-> message]
MalformedSig == [kind |-> "malformed", key |-> "", msg |-> NoMessage]
EmptySig == [kind |-> "empty", key |-> "", msg |-> NoMessage]

\* verifyMessage: Some(recovered address), or None when recovery throws.
verifyMessage(message, sig) ==
    IF sig.kind # "sig" THEN None
    ELSE IF sig.msg = message THEN Some(AddressOf(sig.key))
    ELSE Some(Unrelated)

\* verifyAuditSignature with the address comparison dropped.
verifyAuditSignature_anySigner(audit, signature) ==
    IF signature.scheme # "eip191"
    THEN [ok |-> FALSE, recoveredAddress |-> "",
          error |-> "unsupported_signature_scheme:" \o signature.scheme]
    ELSE IF ~isAddress(signature.signer)
    THEN [ok |-> FALSE, recoveredAddress |-> "", error |-> "invalid_signer_address"]
    ELSE LET recovered == verifyMessage(canonicalAuditMessage(audit), signature.signature) IN
         IF ~IsSome(recovered)
         THEN [ok |-> FALSE, recoveredAddress |-> "", error |-> "invalid_signature"]
         ELSE [ok |-> TRUE, recoveredAddress |-> Get(recovered), error |-> ""]

\* verifyAuditSignature(audit, signature)
verifyAuditSignature(audit, signature) ==
    IF signature.scheme # "eip191"
    THEN [ok |-> FALSE, recoveredAddress |-> "",
          error |-> "unsupported_signature_scheme:" \o signature.scheme]
    ELSE IF ~isAddress(signature.signer)
    THEN [ok |-> FALSE, recoveredAddress |-> "", error |-> "invalid_signer_address"]
    ELSE LET recovered == verifyMessage(canonicalAuditMessage(audit), signature.signature) IN
         IF ~IsSome(recovered)
         THEN [ok |-> FALSE, recoveredAddress |-> "", error |-> "invalid_signature"]
         ELSE IF getAddress(Get(recovered)) # getAddress(signature.signer)
         THEN [ok |-> FALSE, recoveredAddress |-> Get(recovered),
               error |-> "signature_mismatch"]
         ELSE [ok |-> TRUE, recoveredAddress |-> Get(recovered), error |-> ""]

(***************************************************************************)
(* Storage layer.  A table is the sequence of its rows in insertion        *)
(* (auto-increment) order.                                                 *)
(***************************************************************************)
RowsOf(rows, auditId) == SelectSeq(rows, LAMBDA r : r.audit_id = auditId)
RowsNotOf(rows, auditId) == SelectSeq(rows, LAMBDA r : r.audit_id # auditId)

AuditRow(report) == [audit_id |-> report.auditId, raw_json |-> report]
FindingRow(auditId, finding) ==
    [audit_id |-> auditId, finding_id |-> finding.id, title |-> finding.title]
SignatureRow(auditId, signature) ==
    [audit_id |-> auditId, signer |-> signature.signer,
     signature |-> signature.signature, scheme |-> signature.scheme]

\* audits.audit_id UNIQUE: may the row be added to these rows?
uniq_audit_id(rows, row) == \A i \in 1..Len(rows) : rows[i].audit_id # row.audit_id

\* UNIQUE KEY uniq_finding (audit_id, finding_id)
uniq_finding(rows, row) ==
    \A i \in 1..Len(rows) :
        ~(rows[i].audit_id = row.audit_id /\ rows[i].finding_id = row.finding_id)

\* Rows a transaction has written and not yet committed.
NoPending == [audits |-> <<>>, audit_findings |-> <<>>, audit_signatures |-> <<>>]

\* connection.commit(): the transaction's rows join the committed tables.
commit(d, pending) ==
    [d EXCEPT !.audits = @ \o pending.audits,
              !.audit_findings = @ \o pending.audit_findings,
              !.audit_signatures = @ \o pending.audit_signatures]

\* connection.rollback() on a connection that never began the transaction
\* (autocommit): every row written so far stays.
rollback_autocommit(d, pending) ==
    [d EXCEPT !.audits = @ \o pending.audits,
              !.audit_findings = @ \o pending.audit_findings,
              !.audit_signatures = @ \o pending.audit_signatures]

\* connection.rollback(): the transaction's rows are discarded.
rollback(d, pending) == d

\* SELECT audit_id FROM audits WHERE audit_id = ? LIMIT 1 (committed rows).
selectExisting(d, report) == RowsOf(d.audits, report.auditId)

\* INSERT INTO audits: fails on a duplicate audit_id.
insertAuditRow(d, pending, report) ==
    LET row == AuditRow(report) IN
    IF uniq_audit_id(d.audits \o pending.audits, row)
    THEN [ok |-> TRUE, pending |-> [pending EXCEPT !.audits = Append(@, row)]]
    ELSE [ok |-> FALSE, pending |-> pending]

\* insertFinding: fails on a duplicate (audit_id, finding_id).
insertFinding(d, pending, auditId, finding) ==
    LET row == FindingRow(auditId, finding) IN
    IF uniq_finding(d.audit_findings \o pending.audit_findings, row)
    THEN [ok |-> TRUE, pending |-> [pending EXCEPT !.audit_findings = Append(@, row)]]
    ELSE [ok |-> FALSE, pending |-> pending]

\* insertSignature: audit_signatures has no unique key.
insertSignature(d, pending, auditId, signature) ==
    [ok |-> TRUE,
     pending |-> [pending EXCEPT
                    !.audit_signatures = Append(@, SignatureRow(auditId, signature))]]

\* for (const finding of report.findings) await insertFinding(...)
RECURSIVE insertFindings(_, _, _, _)
insertFindings(d, pending, auditId, findings) ==
    IF findings = <<>> THEN [ok |-> TRUE, pending |-> pending]
    ELSE LET r == insertFinding(d, pending, auditId, Head(findings)) IN
         IF r.ok THEN insertFindings(d, r.pending, auditId, Tail(findings)) ELSE r

\* if (report.signatures) for (const signature of ...) await insertSignature(...)
RECURSIVE insertSignatures(_, _, _, _)
insertSignatures(d, pending, auditId, signatures) ==
    IF signatures = <<>> THEN [ok |-> TRUE, pending |-> pending]
    ELSE insertSignatures(d, insertSignature(d, pending, auditId, Head(signatures)).pending,
                          auditId, Tail(signatures))

SignatureList(report) == IF IsSome(report.signatures) THEN Get(report.signatures) ELSE <<>>

\* insertAudit without the existence check, replacing a stored audit.
insertAudit_overwrite(d, report) ==
    LET kept == [d EXCEPT !.audits = RowsNotOf(@, report.auditId),
                          !.audit_findings = RowsNotOf(@, report.auditId),
                          !.audit_signatures = RowsNotOf(@, report.auditId)]
        a == insertAuditRow(kept, NoPending, report)
        f == insertFindings(kept, a.pending, report.auditId, report.findings)
        g == insertSignatures(kept, f.pending, report.auditId, SignatureList(report))
    IN IF f.ok THEN [db |-> commit(kept, g.pending), exists |-> FALSE, threw |-> FALSE]
       ELSE [db |-> rollback(d, f.pending), exists |-> FALSE, threw |-> TRUE]

\* insertAudit(report), run with no other transaction in flight: the
\* committed tables after it, whether it reported exists, whether it threw.
insertAudit(d, report) ==
    IF selectExisting(d, report) # <<>>
    THEN [db |-> rollback(d, NoPending), exists |-> TRUE, threw |-> FALSE]
    ELSE LET a == insertAuditRow(d, NoPending, report) IN
         IF ~a.ok THEN [db |-> rollback(d, a.pending), exists |-> FALSE, threw |-> TRUE]
         ELSE LET f == insertFindings(d, a.pending, report.auditId, report.findings) IN
              IF ~f.ok
              THEN [db |-> rollback(d, f.pending), exists |-> FALSE, threw |-> TRUE]
              ELSE LET g == insertSignatures(d, f.pending, report.auditId,
                                             SignatureList(report)) IN
                   [db |-> commit(d, g.pending), exists |-> FALSE, threw |-> FALSE]

\* getAuditRaw rebuilding the report from the normalized rows of the audit.
getAuditRaw_fromColumns(d, auditId) ==
    LET rows == RowsOf(d.audits, auditId)
        f == RowsOf(d.audit_findings, auditId)
        g == RowsOf(d.audit_signatures, auditId)
    IN IF rows = <<>> THEN None
       ELSE Some(Report(auditId,
                        [i \in 1..Len(f) |-> [id |-> f[i].finding_id, title |-> f[i].title]],
                        Some([i \in 1..Len(g) |->
                                [signer |-> g[i].signer, signature |-> g[i].signature,
                                 scheme |-> g[i].scheme]])))

\* getAuditRaw(auditId): Some(stored payload) or None.
getAuditRaw(d, auditId) ==
    LET rows == RowsOf(d.audits, auditId) IN
    IF rows = <<>> THEN None ELSE Some(rows[1].raw_json)

\* auditExists(auditId)
auditExists(d, auditId) == RowsOf(d.audits, auditId) # <<>>

\* getAuditorByAddress(address): Some(row) or None.
getAuditorByAddress(d, address) ==
    LET rows == SelectSeq(d.auditors, LAMBDA r : r.address = address) IN
    IF rows = <<>> THEN None ELSE Some(rows[1])

\* upsertAuditor as a plain INSERT on a table without the unique key.
upsertAuditor_alwaysInsert(d, record) == [d EXCEPT !.auditors = Append(@, record)]

\* upsertAuditor whose ON DUPLICATE KEY UPDATE leaves the active column out.
upsertAuditor_activeKept(d, record) ==
    IF IsSome(getAuditorByAddress(d, record.address))
    THEN [d EXCEPT !.auditors =
            [i \in 1..Len(@) |-> IF @[i].address = record.address
                                 THEN [record EXCEPT !.active = d.auditors[i].active]
                                 ELSE @[i]]]
    ELSE [d EXCEPT !.auditors = Append(@, record)]

\* upsertAuditor(record): INSERT ... ON DUPLICATE KEY UPDATE on address.
upsertAuditor(d, record) ==
    IF IsSome(getAuditorByAddress(d, record.address))
    THEN [d EXCEPT !.auditors =
            [i \in 1..Len(@) |-> IF @[i].address = record.address THEN record ELSE @[i]]]
    ELSE [d EXCEPT !.auditors = Append(@, record)]


Roots == 0..MaxRoot

(***************************************************************************)
(* Values of the variables a specification does not use.                   *)
(***************************************************************************)
EmptyDb == [audits |-> <<>>, audit_findings |-> <<>>, audit_signatures |-> <<>>,
            auditors |-> <<>>, audit_anchors |-> <<>>]
NoResponse == [route |-> "none", status |-> 0, error |-> "", auditId |-> 0,
               signer |-> "", recoveredAddress |-> "", verified |-> FALSE,
               body |-> None, missing |-> <<>>]
NoConns == <<>>
NoSeed == [pc |-> "off"]
NoEnv == <<>>
NoInflight == {}
NoAudit == Report(0, <<>>, None)
NoValue == [t |-> "undef", p |-> "", kids |-> <<>>]

(***************************************************************************)
(* SpecAnchor: any account calls the deployed contract directly.           *)
(***************************************************************************)
InitAnchor ==
    /\ chain = Constructor(Deployer)
    /\ receipt = NoReceipt
    /\ db = EmptyDb
    /\ response = NoResponse
    /\ conn = NoConns
    /\ seed = NoSeed
    /\ env = NoEnv
    /\ inflight = NoInflight
    /\ proofAudit = NoAudit
    /\ canonInput = NoValue
    /\ driver = DriverIdle
    /\ ui = PageIdle

CallTransferOwnership(sender, newOwner) ==
    /\ Len(chain.events) < MaxEvents
    /\ LET r == transferOwnership(chain, sender, newOwner) IN
        /\ chain' = r.st
        /\ receipt' = [NoReceipt EXCEPT !.fn = "transferOwnership", !.sender = sender,
                                        !.status = r.status, !.newOwner = newOwner]
    /\ UNCHANGED <<db, response, conn, seed, env, inflight, proofAudit, canonInput, driver, ui>>

CallAnchorAudit(sender, auditId, merkleRoot, uri) ==
    /\ Len(chain.events) < MaxEvents
    /\ LET r == anchorAudit(chain, sender, auditId, merkleRoot, uri) IN
        /\ chain' = r.st
        /\ receipt' = [NoReceipt EXCEPT !.fn = "anchorAudit", !.sender = sender,
                                        !.status = r.status, !.auditId = auditId,
                                        !.merkleRoot = merkleRoot]
    /\ UNCHANGED <<db, response, conn, seed, env, inflight, proofAudit, canonInput, driver, ui>>

NextAnchor ==
    \/ \E s \in Senders, n \in Senders \cup {ZeroAddress} : CallTransferOwnership(s, n)
    \/ \E s \in Senders, h \in IdHashes, r \in Roots, u \in Uris :
            CallAnchorAudit(s, h, r, u)

SpecAnchor == InitAnchor /\ [][NextAnchor]_vars

\* C6 (as claimed): once an anchorAudit call for an identifier has succeeded
\* (an AuditAnchored event for it was emitted), no later anchorAudit call for
\* that identifier succeeds, whatever its root, and the owner's call reverts
\* with AlreadyAnchored.
C6_SecondAnchorAlwaysReverts ==
    [][(receipt'.fn = "anchorAudit" /\ AnchoredEvents(chain, receipt'.auditId) # {})
        => /\ receipt'.status # "ok"
           /\ (receipt'.sender = chain.owner => receipt'.status = "AlreadyAnchored")]_vars

\* C7: a call whose sender is not the current owner reverts with NotOwner and
\* changes nothing; the current owner's calls are never refused as NotOwner;
\* a successful transferOwnership(n) makes n the owner, so that from then on
\* the previous owner is refused and n is accepted.
C7_WritesAreOwnerOnly ==
    [][/\ (receipt'.sender # chain.owner
              => receipt'.status = "NotOwner" /\ chain' = chain)
       /\ (receipt'.sender = chain.owner => receipt'.status # "NotOwner")
       /\ (receipt'.fn = "transferOwnership" /\ receipt'.sender = chain.owner
              /\ receipt'.newOwner # ZeroAddress => receipt'.status = "ok")
       /\ (receipt'.fn = "transferOwnership" /\ receipt'.status = "ok"
              => chain'.owner = receipt'.newOwner)]_vars

\* C7 witness: after ownership moved to another account, the deployer's
\* anchorAudit call was refused with NotOwner.
C7_Witness ==
    /\ chain.owner # Deployer
    /\ receipt.fn = "anchorAudit"
    /\ receipt.sender = Deployer
    /\ receipt.status = "NotOwner"

\* C8 (as claimed): the root stored for an identifier is the root of every
\* successful anchorAudit call made for it (no written root is replaced).
C8_StoredRootNeverChanges ==
    \A h \in IdHashes : \A i \in AnchoredEvents(chain, h) :
        chain.auditRoots[h] = chain.events[i].merkleRoot

(***************************************************************************)
(* REST routes.  Each is the handler's result on committed tables d: the   *)
(* tables after it and the response it sends.  An error thrown out of a    *)
(* handler is answered 500 by the framework.                               *)
(***************************************************************************)
Resp(route, status, error) ==
    [NoResponse EXCEPT !.route = route, !.status = status, !.error = error]

\* POST /v1/audits
postAudits(d, payload) ==
    IF ~validator(payload)
    THEN [db |-> d, response |-> Resp("POST /v1/audits", 400, "invalid_audit")]
    ELSE LET result == insertAudit(d, payload) IN
         IF result.threw
         THEN [db |-> result.db,
               response |-> Resp("POST /v1/audits", 500, "internal_server_error")]
         ELSE IF result.exists
         THEN [db |-> result.db,
               response |-> [Resp("POST /v1/audits", 409, "audit_exists")
                                EXCEPT !.auditId = payload.auditId]]
         ELSE [db |-> result.db,
               response |-> [Resp("POST /v1/audits", 201, "")
                                EXCEPT !.auditId = payload.auditId]]

\* POST /v1/submissions with the registry lookup dropped.
postSubmissions_noRegistry(d, body) ==
    LET route == "POST /v1/submissions" IN
    IF ~IsSome(body.audit) \/ ~IsSome(body.signature)
    THEN [db |-> d, response |-> Resp(route, 400, "invalid_submission_payload")]
    ELSE
    LET audit == Get(body.audit)
        given == Get(body.signature)
    IN
    IF ~validator(audit)
    THEN [db |-> d, response |-> Resp(route, 400, "invalid_audit")]
    ELSE IF given.signer = "" \/ given.signature.kind = "empty"
    THEN [db |-> d, response |-> Resp(route, 400, "invalid_signature_payload")]
    ELSE IF ~isAddress(given.signer)
    THEN [db |-> d, response |-> Resp(route, 400, "invalid_signer_address")]
    ELSE
    LET signer == getAddress(given.signer)
        signature == [signer |-> signer, signature |-> given.signature,
                      scheme |-> IF IsSome(given.scheme) THEN Get(given.scheme)
                                 ELSE "eip191",
                      signedAt |-> given.signedAt]
        verification == verifyAuditSignature(audit, signature)
        report == [audit EXCEPT !.signatures = Some(SignatureList(audit) \o <<signature>>)]
        result == insertAudit(d, report)
    IN
    IF ~verification.ok
    THEN [db |-> d,
          response |-> [Resp(route, 400, verification.error)
                            EXCEPT !.recoveredAddress = verification.recoveredAddress]]
    ELSE IF result.threw
    THEN [db |-> result.db, response |-> Resp(route, 500, "internal_server_error")]
    ELSE IF result.exists
    THEN [db |-> result.db,
          response |-> [Resp(route, 409, "audit_exists") EXCEPT !.auditId = report.auditId]]
    ELSE [db |-> result.db,
          response |-> [Resp(route, 201, "") EXCEPT !.auditId = report.auditId,
                                                    !.signer = signer,
                                                    !.verified = TRUE]]

\* POST /v1/submissions storing the verified signature alone.
postSubmissions_ownSignaturesDropped(d, body) ==
    LET route == "POST /v1/submissions" IN
    IF ~IsSome(body.audit) \/ ~IsSome(body.signature)
    THEN [db |-> d, response |-> Resp(route, 400, "invalid_submission_payload")]
    ELSE
    LET audit == Get(body.audit)
        given == Get(body.signature)
    IN
    IF ~validator(audit)
    THEN [db |-> d, response |-> Resp(route, 400, "invalid_audit")]
    ELSE IF given.signer = "" \/ given.signature.kind = "empty"
    THEN [db |-> d, response |-> Resp(route, 400, "invalid_signature_payload")]
    ELSE IF ~isAddress(given.signer)
    THEN [db |-> d, response |-> Resp(route, 400, "invalid_signer_address")]
    ELSE
    LET signer == getAddress(given.signer)
        auditor == getAuditorByAddress(d, signer)
        signature == [signer |-> signer, signature |-> given.signature,
                      scheme |-> IF IsSome(given.scheme) THEN Get(given.scheme)
                                 ELSE "eip191",
                      signedAt |-> given.signedAt]
        verification == verifyAuditSignature(audit, signature)
        report == [audit EXCEPT !.signatures = Some(<<signature>>)]
        result == insertAudit(d, report)
    IN
    IF ~IsSome(auditor)
    THEN [db |-> d,
          response |-> [Resp(route, 400, "auditor_not_registered") EXCEPT !.signer = signer]]
    ELSE IF ~Get(auditor).active
    THEN [db |-> d,
          response |-> [Resp(route, 400, "auditor_inactive") EXCEPT !.signer = signer]]
    ELSE IF ~verification.ok
    THEN [db |-> d,
          response |-> [Resp(route, 400, verification.error)
                            EXCEPT !.recoveredAddress = verification.recoveredAddress]]
    ELSE IF result.threw
    THEN [db |-> result.db, response |-> Resp(route, 500, "internal_server_error")]
    ELSE IF result.exists
    THEN [db |-> result.db,
          response |-> [Resp(route, 409, "audit_exists") EXCEPT !.auditId = report.auditId]]
    ELSE [db |-> result.db,
          response |-> [Resp(route, 201, "") EXCEPT !.auditId = report.auditId,
                                                    !.signer = signer,
                                                    !.verified = TRUE]]

\* POST /v1/submissions
postSubmissions(d, body) ==
    LET route == "POST /v1/submissions" IN
    IF ~IsSome(body.audit) \/ ~IsSome(body.signature)
    THEN [db |-> d, response |-> Resp(route, 400, "invalid_submission_payload")]
    ELSE
    LET audit == Get(body.audit)
        given == Get(body.signature)
    IN
    IF ~validator(audit)
    THEN [db |-> d, response |-> Resp(route, 400, "invalid_audit")]
    ELSE IF given.signer = "" \/ given.signature.kind = "empty"
    THEN [db |-> d, response |-> Resp(route, 400, "invalid_signature_payload")]
    ELSE IF ~isAddress(given.signer)
    THEN [db |-> d, response |-> Resp(route, 400, "invalid_signer_address")]
    ELSE
    LET signer == getAddress(given.signer)
        auditor == getAuditorByAddress(d, signer)
        signature == [signer |-> signer, signature |-> given.signature,
                      scheme |-> IF IsSome(given.scheme) THEN Get(given.scheme)
                                 ELSE "eip191",
                      signedAt |-> given.signedAt]
        verification == verifyAuditSignature(audit, signature)
        report == [audit EXCEPT !.signatures = Some(SignatureList(audit) \o <<signature>>)]
        result == insertAudit(d, report)
    IN
    IF ~IsSome(auditor)
    THEN [db |-> d,
          response |-> [Resp(route, 400, "auditor_not_registered") EXCEPT !.signer = signer]]
    ELSE IF ~Get(auditor).active
    THEN [db |-> d,
          response |-> [Resp(route, 400, "auditor_inactive") EXCEPT !.signer = signer]]
    ELSE IF ~verification.ok
    THEN [db |-> d,
          response |-> [Resp(route, 400, verification.error)
                            EXCEPT !.recoveredAddress = verification.recoveredAddress]]
    ELSE IF result.threw
    THEN [db |-> result.db, response |-> Resp(route, 500, "internal_server_error")]
    ELSE IF result.exists
    THEN [db |-> result.db,
          response |-> [Resp(route, 409, "audit_exists") EXCEPT !.auditId = report.auditId]]
    ELSE [db |-> result.db,
          response |-> [Resp(route, 201, "") EXCEPT !.auditId = report.auditId,
                                                    !.signer = signer,
                                                    !.verified = TRUE]]

\* payload.name?.trim()
trim(name) == IF name = " " THEN "" ELSE name

\* POST /v1/auditors
postAuditors(d, payload) ==
    IF payload.address = "" \/ ~isAddress(payload.address)
    THEN [db |-> d, response |-> Resp("POST /v1/auditors", 400, "invalid_auditor_address")]
    ELSE IF trim(payload.name) = ""
    THEN [db |-> d, response |-> Resp("POST /v1/auditors", 400, "invalid_auditor_name")]
    ELSE LET record == [address |-> getAddress(payload.address),
                        name |-> trim(payload.name),
                        website |-> payload.website,
                        identity |-> payload.identity,
                        publicKey |-> payload.publicKey,
                        active |-> IF IsSome(payload.active) THEN Get(payload.active)
                                   ELSE TRUE]
             stored == upsertAuditor(d, record)
         IN [db |-> stored,
             response |-> [Resp("POST /v1/auditors", 200, "")
                              EXCEPT !.signer = record.address,
                                     !.body = getAuditorByAddress(stored, record.address)]]

\* GET /v1/audits/:auditId
getAudit(d, auditId) ==
    LET audit == getAuditRaw(d, auditId) IN
    IF ~IsSome(audit) THEN Resp("GET /v1/audits/:auditId", 404, "not_found")
    ELSE [Resp("GET /v1/audits/:auditId", 200, "") EXCEPT !.auditId = auditId,
                                                          !.body = audit]

(***************************************************************************)
(* Spec: the ingestion routes, one request handled after another.          *)
(***************************************************************************)
OpaqueSignature ==
    [signer |-> "0xCc", signature |-> Sign("kC", NoMessage), scheme |-> "pgp",
     signedAt |-> None]

\* Bodies of POST /v1/audits.
AuditPayloads ==
    UNION {{Report(a, <<F1>>, None),
            Report(a, <<F1>>, Some(<<OpaqueSignature>>)),
            Report(a, <<F2, F1>>, None),
            Report(a, <<F1, F1b>>, None),
            [Report(a, <<F1>>, None) EXCEPT !.schemaVersion = "v0"]} : a \in AuditIds}

\* Audits carried by POST /v1/submissions.
SubmittedAudits ==
    UNION {{Report(a, <<F1>>, None),
            Report(a, <<F1>>, Some(<<OpaqueSignature>>))} : a \in AuditIds}

SigInput(signer, signature, scheme) ==
    [signer |-> signer, signature |-> signature, scheme |-> scheme, signedAt |-> None]

\* Signature objects sent with an audit: correct ones by key kA (in either
\* spelling of the signer), the signature of key kA under the claimed
\* signer 0xBb, a signature of another message, a malformed or empty value,
\* a missing or invalid signer, another scheme.
SigInputsFor(audit) ==
    LET m == canonicalAuditMessage(audit) IN
    {SigInput(AddrA, Sign("kA", m), None),
     SigInput("0xaa", Sign("kA", m), Some("eip191")),
     SigInput(AddrB, Sign("kA", m), None),
     SigInput(AddrA, Sign("kA", NoMessage), None),
     SigInput(AddrA, MalformedSig, None),
     SigInput(AddrA, EmptySig, None),
     SigInput("", Sign("kA", m), None),
     SigInput("nope", Sign("kA", m), None),
     SigInput(AddrA, Sign("kA", m), Some("pgp"))}

SubmissionBodies ==
    UNION {{[audit |-> Some(a), signature |-> Some(g)] : g \in SigInputsFor(a)}
              : a \in SubmittedAudits}
    \cup {[audit |-> None, signature |-> Some(SigInput(AddrA, MalformedSig, None))],
          [audit |-> Some(Report(1, <<F1>>, None)), signature |-> None],
          [audit |-> Some([Report(1, <<F1>>, None) EXCEPT !.schemaVersion = "v0"]),
           signature |-> Some(SigInput(AddrA, MalformedSig, None))]}

\* A request body of POST /v1/auditors; website, identity and publicKey are
\* given together or not at all.
AuditorInput(address, name, website, active) ==
    [address |-> address, name |-> name, website |-> website,
     identity |-> IF IsSome(website) THEN Some("did:" \o name) ELSE None,
     publicKey |-> IF IsSome(website) THEN Some("pk:" \o name) ELSE None,
     active |-> active]

AuditorPayloads ==
    {AuditorInput("0xaa", "Acme", None, None),
     AuditorInput(AddrA, "Acme Labs", Some("https://acme.example"), Some(FALSE)),
     AuditorInput(AddrB, "Beta", Some("https://beta.example"), Some(TRUE)),
     AuditorInput("nope", "Acme", None, None),
     AuditorInput("", "Acme", None, None),
     AuditorInput(AddrA, " ", None, None)}

Init ==
    /\ db = EmptyDb
    /\ response = NoResponse
    /\ chain = Constructor(Deployer)
    /\ receipt = NoReceipt
    /\ conn = NoConns
    /\ seed = NoSeed
    /\ env = NoEnv
    /\ inflight = NoInflight
    /\ proofAudit = NoAudit
    /\ canonInput = NoValue
    /\ driver = DriverIdle
    /\ ui = PageIdle

PostAudit(payload) ==
    /\ LET r == postAudits(db, payload) IN db' = r.db /\ response' = r.response
    /\ UNCHANGED <<chain, receipt, conn, seed, env, inflight, proofAudit, canonInput, driver, ui>>

PostSubmission(body) ==
    /\ LET r == postSubmissions(db, body) IN db' = r.db /\ response' = r.response
    /\ UNCHANGED <<chain, receipt, conn, seed, env, inflight, proofAudit, canonInput, driver, ui>>

PostAuditor(payload) ==
    /\ LET r == postAuditors(db, payload) IN db' = r.db /\ response' = r.response
    /\ UNCHANGED <<chain, receipt, conn, seed, env, inflight, proofAudit, canonInput, driver, ui>>

GetAudit(auditId) ==
    /\ response' = getAudit(db, auditId)
    /\ UNCHANGED <<db, chain, receipt, conn, seed, env, inflight, proofAudit, canonInput, driver, ui>>

Next ==
    \/ \E p \in AuditPayloads : PostAudit(p)
    \/ \E b \in SubmissionBodies : PostSubmission(b)
    \/ \E p \in AuditorPayloads : PostAuditor(p)
    \/ \E a \in AuditIds : GetAudit(a)

Spec == Init /\ [][Next]_vars

\* Every ingestion attempt on committed tables d: the audit id it carries,
\* the report it would store, whether it reaches insertAudit (passes every
\* validation of its route), and the handler's result.
IngestAttempts(d) ==
    {[auditId |-> p.auditId, report |-> p, passes |-> validator(p),
      result |-> postAudits(d, p)] : p \in AuditPayloads}
    \cup
    {[auditId |-> Get(b.audit).auditId,
      report |-> [Get(b.audit) EXCEPT !.signatures =
                    Some(SignatureList(Get(b.audit)) \o
                         <<[signer |-> getAddress(Get(b.signature).signer),
                            signature |-> Get(b.signature).signature,
                            scheme |-> IF IsSome(Get(b.signature).scheme)
                                       THEN Get(Get(b.signature).scheme) ELSE "eip191",
                            signedAt |-> Get(b.signature).signedAt]>>)],
      passes |-> postSubmissions(d, b).response.status # 400,
      result |-> postSubmissions(d, b)]
        : b \in {x \in SubmissionBodies : IsSome(x.audit) /\ IsSome(x.signature)}}

AuditRowsOf(d, auditId) ==
    <<RowsOf(d.audits, auditId), RowsOf(d.audit_findings, auditId),
      RowsOf(d.audit_signatures, auditId)>>

\* C1: in every reachable state, a POST /v1/audits or POST /v1/submissions
\* request that passes validation and carries a stored auditId is answered
\* 409 audit_exists and changes no row; a request that stores a new auditId
\* is answered 201 and GET returns exactly the payload it stored; and no
\* request changes the rows or the stored payload of an audit already stored.
C1_DuplicateAuditIdRejected ==
    \A t \in IngestAttempts(db) :
        /\ (t.passes /\ auditExists(db, t.auditId)) =>
                /\ t.result.response.status = 409
                /\ t.result.response.error = "audit_exists"
                /\ t.result.response.auditId = t.auditId
                /\ t.result.db = db
        /\ (~auditExists(db, t.auditId) /\ auditExists(t.result.db, t.auditId)) =>
                /\ t.passes
                /\ t.result.response.status = 201
                /\ getAuditRaw(t.result.db, t.auditId) = Some(t.report)
        /\ t.result.response.status = 201 => ~auditExists(db, t.auditId)
        /\ \A a \in AuditIds : auditExists(db, a) =>
                /\ AuditRowsOf(t.result.db, a) = AuditRowsOf(db, a)
                /\ getAudit(t.result.db, a) = getAudit(db, a)

\* C1 witness: a request for a stored auditId was just answered 409.
C1_Witness ==
    /\ response.status = 409
    /\ response.error = "audit_exists"
    /\ auditExists(db, response.auditId)
    /\ Len(db.audit_signatures) > 0

\* A submission of a schema-valid audit with a correct eip191 signature made
\* by the key of address addr, in either spelling of the signer.
CorrectSubmissionsBy(key) ==
    {b \in SubmissionBodies :
        /\ IsSome(b.audit) /\ IsSome(b.signature)
        /\ validator(Get(b.audit))
        /\ isAddress(Get(b.signature).signer)
        /\ getAddress(Get(b.signature).signer) = AddressOf(key)
        /\ Get(b.signature).signature = Sign(key, canonicalAuditMessage(Get(b.audit)))
        /\ Get(b.signature).scheme \in {None, Some("eip191")}}

\* C4: for a correct submission by address A of a new auditId, the answer is
\* 400 auditor_not_registered while A has no registry entry, 400
\* auditor_inactive while A's entry is inactive, and 201 verified (audit
\* stored) while it is active; and whatever the submission, it changes the
\* store only if its signer is registered and active.
C4_RegistryGating ==
    /\ \A b \in CorrectSubmissionsBy("kA") :
        LET r == postSubmissions(db, b)
            a == getAuditorByAddress(db, AddrA)
        IN ~auditExists(db, Get(b.audit).auditId) =>
            /\ ~IsSome(a) =>
                  /\ r.response.status = 400
                  /\ r.response.error = "auditor_not_registered"
                  /\ r.db = db
            /\ (IsSome(a) /\ ~Get(a).active) =>
                  /\ r.response.status = 400
                  /\ r.response.error = "auditor_inactive"
                  /\ r.db = db
            /\ (IsSome(a) /\ Get(a).active) =>
                  /\ r.response.status = 201
                  /\ r.response.verified
                  /\ r.response.signer = AddrA
                  /\ auditExists(r.db, Get(b.audit).auditId)
    /\ \A b \in SubmissionBodies :
        postSubmissions(db, b).db # db =>
            LET a == getAuditorByAddress(db, getAddress(Get(b.signature).signer))
            IN IsSome(a) /\ Get(a).active

\* C4 witness: A is registered and active and its submission was stored.
C4_Witness ==
    /\ response.route = "POST /v1/submissions"
    /\ response.status = 201
    /\ response.verified
    /\ response.signer = AddrA
    /\ IsSome(getAuditorByAddress(db, AddrA))
    /\ Get(getAuditorByAddress(db, AddrA)).active

SubmissionErrors ==
    {"invalid_submission_payload", "invalid_audit", "invalid_signature_payload",
     "invalid_signer_address", "auditor_not_registered", "auditor_inactive",
     "unsupported_signature_scheme:pgp", "signature_mismatch", "invalid_signature"}

\* C5: every POST /v1/submissions answered 400 carries one of the listed
\* error codes and leaves every table unchanged; a signature made with key
\* kA and submitted under the registered, active signer 0xBb is answered 400
\* signature_mismatch with recoveredAddress = address of kA, nothing stored.
C5_RejectedSubmissionStoresNothing ==
    /\ \A b \in SubmissionBodies :
        LET r == postSubmissions(db, b) IN
        r.response.status = 400 =>
            /\ r.db = db
            /\ r.response.error \in SubmissionErrors
    /\ \A b \in SubmissionBodies :
        LET r == postSubmissions(db, b)
            a == getAuditorByAddress(db, AddrB)
        IN (/\ IsSome(b.audit) /\ IsSome(b.signature)
            /\ Get(b.signature).signer = AddrB
            /\ Get(b.signature).signature =
                    Sign("kA", canonicalAuditMessage(Get(b.audit)))
            /\ IsSome(a) /\ Get(a).active) =>
                /\ r.response.status = 400
                /\ r.response.error = "signature_mismatch"
                /\ r.response.recoveredAddress = AddrA
                /\ r.db = db

\* C5 witness: a submission signed by kA under claimed signer 0xBb was just
\* rejected with signature_mismatch while audits are stored.
C5_Witness ==
    /\ response.route = "POST /v1/submissions"
    /\ response.status = 400
    /\ response.error = "signature_mismatch"
    /\ response.recoveredAddress = AddrA
    /\ IsSome(getAuditorByAddress(db, AddrB))

(***************************************************************************)
(* SpecTx: insertAudit calls running concurrently, each on its own pooled  *)
(* connection, one SQL statement per step.  A SELECT reads the committed   *)
(* rows; an INSERT on a unique key waits while another open transaction    *)
(* holds an uncommitted row with that key and then meets the key as        *)
(* committed (duplicate-key error) or absent.                              *)
(***************************************************************************)
Conns == 1..NumConns

\* Reports handed to insertAudit (they passed the route's validator).
TxReports ==
    UNION {{Report(a, <<F2, F1>>, Some(<<OpaqueSignature>>)),
            Report(a, <<F1, F1b>>, None)} : a \in AuditIds}

DistinctFindingIds(report) ==
    \A i, j \in 1..Len(report.findings) :
        report.findings[i].id = report.findings[j].id => i = j

IdleConn ==
    [pc |-> "idle", report |-> Report(0, <<>>, None), pending |-> NoPending,
     next |-> 1, result |-> "none", fresh |-> FALSE, overlapped |-> {}]

InTransaction(c) == conn[c].pc \in {"select", "audit", "findings", "signatures", "commit"}

\* Another open transaction holds an uncommitted audits row with this key.
KeyHeldByOther(c, auditId) ==
    \E o \in Conns \ {c} : RowsOf(conn[o].pending.audits, auditId) # <<>>

InitTx ==
    /\ db = EmptyDb
    /\ conn = [c \in Conns |-> IdleConn]
    /\ response = NoResponse
    /\ chain = Constructor(Deployer)
    /\ receipt = NoReceipt
    /\ seed = NoSeed
    /\ env = NoEnv
    /\ inflight = NoInflight
    /\ proofAudit = NoAudit
    /\ canonInput = NoValue
    /\ driver = DriverIdle
    /\ ui = PageIdle

\* pool.getConnection(); connection.beginTransaction()
BeginTransaction(c, report) ==
    /\ conn[c].pc = "idle"
    /\ LET open == {o \in Conns \ {c} : InTransaction(o)} IN
       conn' = [o \in Conns |->
                  IF o = c
                  THEN [IdleConn EXCEPT !.pc = "select", !.report = report,
                                        !.fresh = ~auditExists(db, report.auditId),
                                        !.overlapped = open]
                  ELSE IF o \in open
                       THEN [conn[o] EXCEPT !.overlapped = @ \cup {c}]
                       ELSE conn[o]]
    /\ UNCHANGED <<db, response, chain, receipt, seed, env, inflight, proofAudit, canonInput, driver, ui>>

\* SELECT audit_id ...; if found: rollback, return { exists: true }
SelectExisting(c) ==
    /\ conn[c].pc = "select"
    /\ IF selectExisting(db, conn[c].report) # <<>>
       THEN /\ db' = rollback(db, conn[c].pending)
            /\ conn' = [conn EXCEPT ![c].pc = "done", ![c].result = "exists",
                                    ![c].pending = NoPending]
       ELSE /\ conn' = [conn EXCEPT ![c].pc = "audit"]
            /\ UNCHANGED db
    /\ UNCHANGED <<response, chain, receipt, seed, env, inflight, proofAudit, canonInput, driver, ui>>

\* catch (error) { rollback; throw error }
Throw(c) ==
    /\ db' = rollback(db, conn[c].pending)
    /\ conn' = [conn EXCEPT ![c].pc = "done", ![c].result = "threw",
                            ![c].pending = NoPending]

\* INSERT INTO audits (...)
InsertAuditRow(c) ==
    /\ conn[c].pc = "audit"
    /\ ~KeyHeldByOther(c, conn[c].report.auditId)
    /\ LET r == insertAuditRow(db, conn[c].pending, conn[c].report) IN
       IF r.ok
       THEN /\ conn' = [conn EXCEPT ![c].pc = "findings", ![c].pending = r.pending]
            /\ UNCHANGED db
       ELSE Throw(c)
    /\ UNCHANGED <<response, chain, receipt, seed, env, inflight, proofAudit, canonInput, driver, ui>>

\* one turn of: for (const finding of report.findings) insertFinding(...)
InsertFindingRow(c) ==
    /\ conn[c].pc = "findings"
    /\ LET report == conn[c].report
           k == conn[c].next
       IN IF k > Len(report.findings)
          THEN /\ conn' = [conn EXCEPT ![c].pc = "signatures", ![c].next = 1]
               /\ UNCHANGED db
          ELSE LET r == insertFinding(db, conn[c].pending, report.auditId,
                                      report.findings[k]) IN
               IF r.ok
               THEN /\ conn' = [conn EXCEPT ![c].next = k + 1, ![c].pending = r.pending]
                    /\ UNCHANGED db
               ELSE Throw(c)
    /\ UNCHANGED <<response, chain, receipt, seed, env, inflight, proofAudit, canonInput, driver, ui>>

\* one turn of: for (const signature of report.signatures) insertSignature(...)
InsertSignatureRow(c) ==
    /\ conn[c].pc = "signatures"
    /\ LET report == conn[c].report
           k == conn[c].next
       IN IF k > Len(SignatureList(report))
          THEN conn' = [conn EXCEPT ![c].pc = "commit", ![c].next = 1]
          ELSE conn' = [conn EXCEPT
                          ![c].next = k + 1,
                          ![c].pending = insertSignature(db, @, report.auditId,
                                                         SignatureList(report)[k]).pending]
    /\ UNCHANGED <<db, response, chain, receipt, seed, env, inflight, proofAudit, canonInput, driver, ui>>

\* connection.commit(); return { exists: false }
Commit(c) ==
    /\ conn[c].pc = "commit"
    /\ db' = commit(db, conn[c].pending)
    /\ conn' = [conn EXCEPT ![c].pc = "done", ![c].result = "inserted",
                            ![c].pending = NoPending]
    /\ UNCHANGED <<response, chain, receipt, seed, env, inflight, proofAudit, canonInput, driver, ui>>

\* finally { connection.release() }: the caller has its result, the
\* connection returns to the pool.
Release(c) ==
    /\ \A o \in Conns : conn[o].pc \in {"idle", "done"}
    /\ conn[c].pc = "done"
    /\ conn' = [conn EXCEPT ![c] = IdleConn]
    /\ UNCHANGED <<db, response, chain, receipt, seed, env, inflight, proofAudit, canonInput, driver, ui>>

NextTx ==
    \/ \E c \in Conns, r \in TxReports : BeginTransaction(c, r)
    \/ \E c \in Conns : SelectExisting(c)
    \/ \E c \in Conns : InsertAuditRow(c)
    \/ \E c \in Conns : InsertFindingRow(c)
    \/ \E c \in Conns : InsertSignatureRow(c)
    \/ \E c \in Conns : Commit(c)
    \/ \E c \in Conns : Release(c)

SpecTx == InitTx /\ [][NextTx]_vars

\* The committed rows of audit a are exactly those of the stored report.
StoredWhole(d, a) ==
    LET report == RowsOf(d.audits, a)[1].raw_json IN
    /\ Len(RowsOf(d.audits, a)) = 1
    /\ RowsOf(d.audit_findings, a) =
          [i \in 1..Len(report.findings) |-> FindingRow(a, report.findings[i])]
    /\ RowsOf(d.audit_signatures, a) =
          [i \in 1..Len(SignatureList(report)) |->
              SignatureRow(a, SignatureList(report)[i])]

\* The committed tables hold no row of audit a.
StoredNothing(d, a) ==
    /\ RowsOf(d.audits, a) = <<>>
    /\ RowsOf(d.audit_findings, a) = <<>>
    /\ RowsOf(d.audit_signatures, a) = <<>>

\* C2: whenever two insertAudit calls whose transactions overlapped, for the
\* same auditId that was not stored when they began (payloads with distinct
\* finding ids), have both returned, exactly one of them inserted the audit
\* row and the other returned exists = true rather than an error, and the
\* audits table holds one row for the id.
C2_RaceLoserSeesExists ==
    \A c1, c2 \in Conns :
        (/\ c1 # c2
         /\ conn[c1].pc = "done" /\ conn[c2].pc = "done"
         /\ c2 \in conn[c1].overlapped
         /\ conn[c1].report.auditId = conn[c2].report.auditId
         /\ conn[c1].fresh /\ conn[c2].fresh
         /\ DistinctFindingIds(conn[c1].report)
         /\ DistinctFindingIds(conn[c2].report)) =>
            /\ {conn[c1].result, conn[c2].result} = {"inserted", "exists"}
            /\ StoredWhole(db, conn[c1].report.auditId)

\* C3: in every state the committed tables hold, for each auditId, either
\* the audits row with all of its finding and signature rows or no row at
\* all; an insertAudit call that returned inserted committed its whole
\* report; and a call whose payload repeats a finding id never returns
\* inserted: it throws (or reports exists) and none of its rows are stored.
C3_AllOrNothing ==
    /\ \A a \in AuditIds : StoredNothing(db, a) \/ StoredWhole(db, a)
    /\ \A c \in Conns : conn[c].pc = "done" =>
        /\ conn[c].result \in {"inserted", "exists", "threw"}
        /\ conn[c].result = "inserted" =>
                getAuditRaw(db, conn[c].report.auditId) = Some(conn[c].report)
        /\ ~DistinctFindingIds(conn[c].report) =>
                /\ conn[c].result # "inserted"
                /\ conn[c].fresh /\ conn[c].overlapped = {} => conn[c].result = "threw"
                /\ getAuditRaw(db, conn[c].report.auditId) # Some(conn[c].report)

\* C3 witness: a call with a repeated finding id has thrown after writing
\* its audit row, nothing of it is stored, and another audit is stored whole.
C3_Witness ==
    \E c \in Conns :
        /\ conn[c].pc = "done"
        /\ conn[c].result = "threw"
        /\ ~DistinctFindingIds(conn[c].report)
        /\ StoredNothing(db, conn[c].report.auditId)
        /\ \E a \in AuditIds : ~StoredNothing(db, a) /\ StoredWhole(db, a)

(***************************************************************************)
(* Merkle commitments (proofs.ts).  A 32-byte hash is a positive natural;  *)
(* keccak256 is injective on the inputs that occur: a finding hashes to    *)
(* its place in the catalogue of findings, a pair of hashes to the Cantor  *)
(* pairing of the pair above every leaf hash.                              *)
(***************************************************************************)
\* Findings whose ids tell the comparisons apart: digits, letters in both
\* cases, and the letter e-acute spelled as one code point (U+00E9) and as
\* e followed by the combining accent (U+0301).
F10 == [id |-> "10", title |-> "ten"]
F9 == [id |-> "9", title |-> "nine"]
Fa == [id |-> "a", title |-> "lower"]
FB == [id |-> "B", title |-> "upper"]
FeNFC == [id |-> "U+00E9", title |-> "composed"]
FeNFD == [id |-> "e+U+0301", title |-> "decomposed"]

FindingCatalogue == <<F1, F1b, F2, F10, F9, Fa, FB, FeNFC, FeNFD>>

\* hashFinding(finding) = keccak256(utf8(stableStringify(finding)))
hashFinding(finding) ==
    CHOOSE i \in 1..Len(FindingCatalogue) : FindingCatalogue[i] = finding

\* sortHex(a, b): the two hashes in ascending order.
sortHex(a, b) == IF a <= b THEN <<a, b>> ELSE <<b, a>>

\* keccak256(concatBytes(a, b)): injective on ordered pairs of hashes.
keccak256Concat(a, b) ==
    ((a + b) * (a + b + 1)) \div 2 + b + Len(FindingCatalogue) + 1

\* hashPair that hashes the pair in the order given.
hashPair_unsorted(left, right) == keccak256Concat(left, right)

\* hashPair(left, right) = keccak256(concat(sortHex(left, right)))
hashPair(left, right) ==
    LET p == sortHex(left, right) IN keccak256Concat(p[1], p[2])

\* The place of an id in the collation String.prototype.localeCompare uses
\* (default locale): digits before letters, letters in alphabetical order
\* with the lower case first, and one place for strings that are
\* canonically equivalent.
CollationRank(id) ==
    CASE id = "10" -> 1 [] id = "9" -> 2 [] id = "a" -> 3 [] id = "B" -> 4
      [] id = "U+00E9" -> 5 [] id = "e+U+0301" -> 5
      [] id = "F-1" -> 6 [] id = "F-2" -> 7 [] OTHER -> 8

\* a.localeCompare(b): negative, zero or positive.
localeCompare(a, b) ==
    IF CollationRank(a) < CollationRank(b) THEN -1
    ELSE IF CollationRank(a) > CollationRank(b) THEN 1 ELSE 0

\* The comparator of the sort does not put a after b.
idLeq(a, b) == localeCompare(a.id, b.id) <= 0

\* [...audit.findings].sort(by id): a stable sort.
RECURSIVE sortFindings(_)
sortFindings(findings) ==
    IF findings = <<>> THEN <<>>
    ELSE LET rest == sortFindings(Tail(findings))
             h == Head(findings)
             before == SelectSeq(rest, LAMBDA f : ~idLeq(h, f))
             after == SelectSeq(rest, LAMBDA f : idLeq(h, f))
         IN before \o <<h>> \o after

\* One pass of the for loop of buildMerkleTree: the layer above current.
nextLayer(current) ==
    [i \in 1..((Len(current) + 1) \div 2) |->
        hashPair(current[2 * i - 1],
                 IF 2 * i <= Len(current) THEN current[2 * i] ELSE current[2 * i - 1])]

\* buildMerkleTree(leaves).layers, for at least one leaf.
RECURSIVE merkleLayers(_)
merkleLayers(layers) ==
    IF Len(layers[Len(layers)]) > 1
    THEN merkleLayers(Append(layers, nextLayer(layers[Len(layers)])))
    ELSE layers

\* buildMerkleTree(leaves): throws on zero leaves.
\* buildMerkleTree giving the zero root to an empty list of leaves.
buildMerkleTree_emptyIsZero(leaves) ==
    IF leaves = <<>> THEN [threw |-> FALSE, root |-> 0, layers |-> <<(<<>>)>>]
    ELSE LET layers == merkleLayers(<<leaves>>) IN
         [threw |-> FALSE, root |-> layers[Len(layers)][1], layers |-> layers]

buildMerkleTree(leaves) ==
    IF leaves = <<>> THEN [threw |-> TRUE, root |-> 0, layers |-> <<>>]
    ELSE LET layers == merkleLayers(<<leaves>>) IN
         [threw |-> FALSE, root |-> layers[Len(layers)][1], layers |-> layers]

\* computeMerkleRoot(audit)
computeMerkleRoot(audit) ==
    LET orderedFindings == sortFindings(audit.findings)
        leaves == [i \in 1..Len(orderedFindings) |-> hashFinding(orderedFindings[i])]
    IN buildMerkleTree(leaves)

\* buildProof(layers, leafIndex) from layer layerIndex upwards: the sibling
\* at index +-1 of each layer below the top (the node itself when it has
\* none), bottom to top.  Indices count from 0 as in the code.
RECURSIVE buildProofFrom(_, _, _)
buildProofFrom(layers, layerIndex, index) ==
    IF layerIndex >= Len(layers) THEN <<>>
    ELSE LET layer == layers[layerIndex]
             isRightNode == index % 2 = 1
             pairIndex == IF isRightNode THEN index - 1 ELSE index + 1
             sibling == IF pairIndex + 1 <= Len(layer) THEN layer[pairIndex + 1]
                        ELSE layer[index + 1]
         IN <<sibling>> \o buildProofFrom(layers, layerIndex + 1, index \div 2)

\* buildProof that starts one layer too high.
buildProof_skipLeafLayer(layers, leafIndex) ==
    buildProofFrom(layers, 2, leafIndex \div 2)

buildProof(layers, leafIndex) == buildProofFrom(layers, 1, leafIndex)

\* buildProofForFinding(audit, findingId): None when the id is not a finding.
buildProofForFinding(audit, findingId) ==
    LET orderedFindings == sortFindings(audit.findings)
        leaves == [i \in 1..Len(orderedFindings) |-> hashFinding(orderedFindings[i])]
        hits == {i \in 1..Len(orderedFindings) : orderedFindings[i].id = findingId}
    IN IF hits = {} THEN None
       ELSE LET leafIndex == (CHOOSE i \in hits : \A j \in hits : i <= j) - 1
                tree == buildMerkleTree(leaves)
            IN Some([auditId |-> audit.auditId, findingId |-> findingId,
                     leaf |-> leaves[leafIndex + 1],
                     root |-> tree.root,
                     proof |-> buildProof(tree.layers, leafIndex),
                     leafIndex |-> leafIndex, totalLeaves |-> Len(leaves)])

(***************************************************************************)
(* Pagination.  A JavaScript number is NaN, an infinity, or a finite value *)
(* held in tenths (v = 15 is 1.5).  A query parameter is an Option string. *)
(***************************************************************************)
NaN == [k |-> "nan", v |-> 0]
PosInfinity == [k |-> "+inf", v |-> 0]
NegInfinity == [k |-> "-inf", v |-> 0]
Tenths(v) == [k |-> "num", v |-> v]
Whole(n) == Tenths(10 * n)

\* a < b on numbers other than NaN
Less(a, b) ==
    \/ a.k = "-inf" /\ b.k # "-inf"
    \/ b.k = "+inf" /\ a.k # "+inf"
    \/ a.k = "num" /\ b.k = "num" /\ a.v < b.v

mathMin(a, b) == IF a.k = "nan" \/ b.k = "nan" THEN NaN ELSE IF Less(b, a) THEN b ELSE a
mathMax(a, b) == IF a.k = "nan" \/ b.k = "nan" THEN NaN ELSE IF Less(a, b) THEN b ELSE a
mathFloor(a) == IF a.k = "num" THEN Whole(a.v \div 10) ELSE a
isFinite(a) == a.k = "num"

\* The numeric literals among the query strings, with their values in tenths.
NumericLiterals ==
    [s \in {"-5", "0", "1", "2", "1.5", "200", "201", "1e3", "10000", "10001"} |->
        CASE s = "-5" -> 0 - 50
          [] s = "0" -> 0
          [] s = "1" -> 10
          [] s = "2" -> 20
          [] s = "1.5" -> 15
          [] s = "200" -> 2000
          [] s = "201" -> 2010
          [] s = "1e3" -> 10000
          [] s = "10000" -> 100000
          [] s = "10001" -> 100010]

\* Number(value) on a string: white space is trimmed, the empty rest is 0,
\* a numeric literal is its value, Infinity is accepted, anything else NaN.
Number(value) ==
    CASE value \in {"", " "} -> Whole(0)
      [] value \in DOMAIN NumericLiterals -> Tenths(NumericLiterals[value])
      [] value = "Infinity" -> PosInfinity
      [] value = "-Infinity" -> NegInfinity
      [] OTHER -> NaN

\* clampNumber(value, fallback, min, max)
clampNumber(value, fallback, min, max) ==
    IF value = None \/ value = Some("") THEN Whole(fallback)
    ELSE LET parsed == Number(Get(value)) IN
         IF parsed.k = "nan" THEN Whole(fallback)
         ELSE mathMin(Whole(max), mathMax(Whole(min), parsed))

\* sanitizeLimit(value, max, fallback)
sanitizeLimit(value, max, fallback) ==
    IF ~isFinite(value) THEN Whole(fallback)
    ELSE mathMax(Whole(1), mathMin(Whole(max), mathFloor(value)))

\* sanitizeOffset(value, max)
sanitizeOffset(value, max) ==
    IF ~isFinite(value) THEN Whole(0)
    ELSE mathMax(Whole(0), mathMin(Whole(max), mathFloor(value)))

\* ... LIMIT limit OFFSET offset on rows already ordered.
limitOffset(rows, limit, offset) ==
    LET first == offset.v \div 10 + 1
        last == IF first + limit.v \div 10 - 1 < Len(rows)
                THEN first + limit.v \div 10 - 1 ELSE Len(rows)
    IN SubSeq(rows, first, last)

Reverse(rows) == [i \in 1..Len(rows) |-> rows[Len(rows) + 1 - i]]

Pagination(limit, offset, total) == [limit |-> limit, offset |-> offset, total |-> total]

\* listAudits(options): ORDER BY report_date DESC, created_at DESC.  The
\* reports stored here carry one report date, so the newest row comes first.
listAudits(d, options) ==
    LET total == Len(d.audits) IN
    IF total = 0 THEN [items |-> <<>>, total |-> total]
    ELSE LET limit == sanitizeLimit(options.limit, 200, 20)
             offset == sanitizeOffset(options.offset, 10000)
             rows == limitOffset(Reverse(d.audits), limit, offset)
         IN [items |-> [i \in 1..Len(rows) |-> [auditId |-> rows[i].audit_id]],
             total |-> total]

\* listAuditors(options): ORDER BY created_at DESC.
listAuditors(d, options) ==
    LET total == Len(d.auditors) IN
    IF total = 0 THEN [items |-> <<>>, total |-> total]
    ELSE LET limit == sanitizeLimit(options.limit, 200, 20)
             offset == sanitizeOffset(options.offset, 10000)
         IN [items |-> limitOffset(Reverse(d.auditors), limit, offset), total |-> total]

\* ORDER BY finding_id ASC on the rows of one audit.
RECURSIVE orderByFindingId(_)
orderByFindingId(rows) ==
    IF rows = <<>> THEN <<>>
    ELSE LET least == CHOOSE i \in 1..Len(rows) :
                        \A j \in 1..Len(rows) :
                            \/ CollationRank(rows[i].finding_id)
                                 < CollationRank(rows[j].finding_id)
                            \/ /\ CollationRank(rows[i].finding_id)
                                    = CollationRank(rows[j].finding_id)
                               /\ i <= j
         IN <<rows[least]>>
              \o orderByFindingId([k \in 1..Len(rows) - 1 |->
                                      IF k < least THEN rows[k] ELSE rows[k + 1]])

\* mapFinding(row)
mapFinding(row) == [id |-> row.finding_id, title |-> row.title]

\* listFindings(auditId, options)
listFindings(d, auditId, options) ==
    LET total == Len(RowsOf(d.audit_findings, auditId)) IN
    IF total = 0 THEN [items |-> <<>>, total |-> total]
    ELSE LET limit == sanitizeLimit(options.limit, 200, 50)
             offset == sanitizeOffset(options.offset, 10000)
             rows == limitOffset(orderByFindingId(RowsOf(d.audit_findings, auditId)),
                                 limit, offset)
         IN [items |-> [i \in 1..Len(rows) |-> mapFinding(rows[i])], total |-> total]

NoQuery == [limit |-> None, offset |-> None]

\* GET /v1/audits
getAudits(d, query) ==
    LET limit == clampNumber(query.limit, 20, 1, 200)
        offset == clampNumber(query.offset, 0, 0, 10000)
        page == listAudits(d, [limit |-> limit, offset |-> offset])
    IN [Resp("GET /v1/audits", 200, "")
          EXCEPT !.body = Some([items |-> page.items,
                                pagination |-> Pagination(limit, offset, page.total)])]

\* GET /v1/auditors
getAuditors(d, query) ==
    LET limit == clampNumber(query.limit, 20, 1, 200)
        offset == clampNumber(query.offset, 0, 0, 10000)
        page == listAuditors(d, [limit |-> limit, offset |-> offset])
    IN [Resp("GET /v1/auditors", 200, "")
          EXCEPT !.body = Some([items |-> page.items,
                                pagination |-> Pagination(limit, offset, page.total)])]

\* GET /v1/auditors/:address
getAuditor(d, address) ==
    IF ~isAddress(address)
    THEN Resp("GET /v1/auditors/:address", 400, "invalid_auditor_address")
    ELSE LET auditor == getAuditorByAddress(d, getAddress(address)) IN
         IF ~IsSome(auditor) THEN Resp("GET /v1/auditors/:address", 404, "not_found")
         ELSE [Resp("GET /v1/auditors/:address", 200, "") EXCEPT !.body = auditor]

(***************************************************************************)
(* Storage and routes of findings, proofs, anchors and deletion.           *)
(***************************************************************************)
AnchorRow(record) ==
    [audit_id |-> record.auditId, chain_id |-> record.chainId,
     merkle_root |-> record.merkleRoot, tx_hash |-> record.txHash,
     uri |-> record.uri]

\* UNIQUE KEY uniq_anchor (audit_id, chain_id, merkle_root)
uniq_anchor(rows, row) ==
    \A i \in 1..Len(rows) :
        ~(/\ rows[i].audit_id = row.audit_id
          /\ rows[i].chain_id = row.chain_id
          /\ rows[i].merkle_root = row.merkle_root)

\* insertAnchor(record): the INSERT fails when the audit row is gone
\* (foreign key) or the unique key is taken.
insertAnchor(d, record) ==
    LET row == AnchorRow(record) IN
    IF auditExists(d, record.auditId) /\ uniq_anchor(d.audit_anchors, row)
    THEN [db |-> [d EXCEPT !.audit_anchors = Append(@, row)], threw |-> FALSE]
    ELSE [db |-> d, threw |-> TRUE]

\* listAnchors(auditId)
listAnchors(d, auditId) == RowsOf(d.audit_anchors, auditId)

\* DELETE FROM audits WHERE audit_id = ? without the cascade to anchors.
deleteAudit_keepAnchors(d, auditId) ==
    [d EXCEPT !.audits = RowsNotOf(@, auditId),
              !.audit_findings = RowsNotOf(@, auditId),
              !.audit_signatures = RowsNotOf(@, auditId)]

\* deleteAudit(auditId): DELETE FROM audits; the three foreign keys are
\* ON DELETE CASCADE.
deleteAudit(d, auditId) ==
    [d EXCEPT !.audits = RowsNotOf(@, auditId),
              !.audit_findings = RowsNotOf(@, auditId),
              !.audit_signatures = RowsNotOf(@, auditId),
              !.audit_anchors = RowsNotOf(@, auditId)]

\* GET /v1/audits/:auditId/findings answering 404 whenever no finding row
\* is counted, without asking whether the audit exists.
getFindings_noExistsCheck(d, auditId, query) ==
    LET limit == clampNumber(query.limit, 50, 1, 200)
        offset == clampNumber(query.offset, 0, 0, 10000)
        page == listFindings(d, auditId, [limit |-> limit, offset |-> offset])
    IN IF page.total = 0
       THEN Resp("GET /v1/audits/:auditId/findings", 404, "not_found")
       ELSE [Resp("GET /v1/audits/:auditId/findings", 200, "")
               EXCEPT !.auditId = auditId,
                      !.body = Some([auditId |-> auditId, items |-> page.items,
                                     pagination |->
                                         Pagination(limit, offset, page.total)])]

\* GET /v1/audits/:auditId/findings
getFindings(d, auditId, query) ==
    LET limit == clampNumber(query.limit, 50, 1, 200)
        offset == clampNumber(query.offset, 0, 0, 10000)
        page == listFindings(d, auditId, [limit |-> limit, offset |-> offset])
    IN IF page.total = 0 /\ ~auditExists(d, auditId)
       THEN Resp("GET /v1/audits/:auditId/findings", 404, "not_found")
       ELSE [Resp("GET /v1/audits/:auditId/findings", 200, "")
               EXCEPT !.auditId = auditId,
                      !.body = Some([auditId |-> auditId, items |-> page.items,
                                     pagination |->
                                         Pagination(limit, offset, page.total)])]

\* GET /v1/audits/:auditId/findings/:findingId/proof
getProof(d, auditId, findingId) ==
    LET audit == getAuditRaw(d, auditId) IN
    IF ~IsSome(audit)
    THEN Resp("GET /v1/audits/:auditId/findings/:findingId/proof", 404, "not_found")
    ELSE IF ~IsSome(buildProofForFinding(Get(audit), findingId))
    THEN Resp("GET /v1/audits/:auditId/findings/:findingId/proof", 404,
              "finding_not_found")
    ELSE [Resp("GET /v1/audits/:auditId/findings/:findingId/proof", 200, "")
            EXCEPT !.auditId = auditId,
                   !.body = buildProofForFinding(Get(audit), findingId)]

\* GET /v1/audits/:auditId/anchors
getAnchors(d, auditId) ==
    IF ~IsSome(getAuditRaw(d, auditId))
    THEN Resp("GET /v1/audits/:auditId/anchors", 404, "not_found")
    ELSE [Resp("GET /v1/audits/:auditId/anchors", 200, "") EXCEPT !.auditId = auditId]

AnchorEnvKeys == <<"ANCHOR_RPC_URL", "ANCHOR_PRIVATE_KEY", "ANCHOR_CONTRACT_ADDRESS">>

\* The address of the wallet built from ANCHOR_PRIVATE_KEY, and the chain
\* id reported by the provider.
Wallet == Deployer
ChainId == 421614

\* An environment value counted as present whenever it is defined.
truthy_definedOnly(value) == IsSome(value)

\* !value of an environment value: it is undefined or the empty string.
truthy(value) == IsSome(value) /\ Get(value) # ""

\* POST /v1/audits/:auditId/anchor up to the contract call: the response
\* sent without calling the chain, or the root and uri to anchor.
postAnchorPrepare(d, e, auditId, uri) ==
    LET audit == getAuditRaw(d, auditId)
        missing == SelectSeq(AnchorEnvKeys, LAMBDA k : ~truthy(e[k]))
        route == "POST /v1/audits/:auditId/anchor"
    IN IF ~IsSome(audit)
       THEN [proceed |-> FALSE, response |-> Resp(route, 404, "not_found"),
             merkleRoot |-> 0, uri |-> ""]
       ELSE IF missing # <<>>
       THEN [proceed |-> FALSE,
             response |-> [Resp(route, 400, "anchor_config_missing")
                             EXCEPT !.missing = missing],
             merkleRoot |-> 0, uri |-> ""]
       ELSE IF computeMerkleRoot(Get(audit)).threw
       THEN [proceed |-> FALSE, response |-> Resp(route, 500, "internal"),
             merkleRoot |-> 0, uri |-> ""]
       ELSE [proceed |-> TRUE, response |-> NoResponse,
             merkleRoot |-> computeMerkleRoot(Get(audit)).root,
             uri |-> IF IsSome(uri) THEN Get(uri) ELSE ""]

\* anchorAuditOnChain(config, auditId, merkleRoot, uri): the contract after
\* the call and the AnchorTxResult, or threw when the transaction reverts.
anchorAuditOnChain(st, auditId, merkleRoot, uri) ==
    LET auditIdHash == keccak256Id(auditId)
        r == anchorAudit(st, Wallet, auditIdHash, merkleRoot, uri)
    IN [st |-> r.st, threw |-> r.status # "ok",
        tx |-> [auditId |-> auditId, txHash |-> 1000 + Len(r.st.events),
                chainId |-> ChainId, merkleRoot |-> merkleRoot, uri |-> uri]]

(***************************************************************************)
(* SpecOps: the API routes that read, anchor and ingest audits, running    *)
(* beside one seed loader process.  The anchor route takes two steps: the  *)
(* contract call, then the insert of the anchor record.                    *)
(***************************************************************************)
MaxInflight == 1

\* fixtures/*.json in sorted order; the first is the default sample audit.
Fixtures == <<Report(1, <<F1>>, None), Report(2, <<F2, F1>>, None)>>

\* Bodies of POST /v1/audits sent beside the seed loader.
OpsPayloads == {Report(1, <<F2, F1>>, None), Report(2, <<>>, None)}

\* Request bodies of the anchor route: uri absent.
AnchorUris == {None}

FullEnv == [k \in Range(AnchorEnvKeys) |-> Some("set")]

\* An environment with the RPC URL unset and the contract address empty.
PartEnv ==
    [FullEnv EXCEPT !["ANCHOR_RPC_URL"] = None, !["ANCHOR_CONTRACT_ADDRESS"] = Some("")]

SeedOff == [pc |-> "off", refresh |-> FALSE, files |-> <<>>]

InitOps ==
    /\ db = EmptyDb
    /\ response = NoResponse
    /\ chain = Constructor(Deployer)
    /\ receipt = NoReceipt
    /\ conn = NoConns
    /\ seed = SeedOff
    /\ env \in {FullEnv, PartEnv}
    /\ inflight = NoInflight
    /\ proofAudit = NoAudit
    /\ canonInput = NoValue
    /\ driver = DriverIdle
    /\ ui = PageIdle

OpsPostAudit(payload) ==
    /\ LET r == postAudits(db, payload) IN db' = r.db /\ response' = r.response
    /\ UNCHANGED <<chain, receipt, conn, seed, env, inflight, proofAudit, canonInput, driver, ui>>

OpsPostAuditor(payload) ==
    /\ LET r == postAuditors(db, payload) IN db' = r.db /\ response' = r.response
    /\ UNCHANGED <<chain, receipt, conn, seed, env, inflight, proofAudit, canonInput, driver, ui>>

OpsGet(a, findingId) ==
    /\ response' \in {getAudit(db, a), getFindings(db, a, NoQuery), getProof(db, a, findingId),
                      getAnchors(db, a)}
    /\ UNCHANGED <<db, chain, receipt, conn, seed, env, inflight, proofAudit, canonInput, driver, ui>>

\* POST .../anchor through `await anchorAuditOnChain(...)`: rpcOk is whether
\* the provider accepts and mines the transaction request.
PostAnchorSend(a, uri, rpcOk) ==
    /\ Cardinality(inflight) < MaxInflight
    /\ LET pre == postAnchorPrepare(db, env, a, uri)
           r == anchorAuditOnChain(chain, a, pre.merkleRoot, pre.uri)
       IN IF ~pre.proceed
          THEN response' = pre.response /\ UNCHANGED <<chain, inflight>>
          ELSE IF ~rpcOk \/ r.threw
          THEN /\ response' = [Resp("POST /v1/audits/:auditId/anchor", 500, "internal")
                                 EXCEPT !.auditId = a]
               /\ UNCHANGED <<chain, inflight>>
          ELSE /\ chain' = r.st
               /\ inflight' = inflight \cup {r.tx}
               /\ UNCHANGED response
    /\ UNCHANGED <<db, receipt, conn, seed, env, proofAudit, canonInput, driver, ui>>

\* POST .../anchor from `await insertAnchor(...)` to the reply.
PostAnchorStore(tx) ==
    /\ tx \in inflight
    /\ LET r == insertAnchor(db, tx) IN
        /\ db' = r.db
        /\ response' = IF r.threw
                       THEN [Resp("POST /v1/audits/:auditId/anchor", 500, "internal")
                               EXCEPT !.auditId = tx.auditId]
                       ELSE [Resp("POST /v1/audits/:auditId/anchor", 200, "")
                               EXCEPT !.auditId = tx.auditId]
    /\ inflight' = inflight \ {tx}
    /\ UNCHANGED <<chain, receipt, conn, seed, env, proofAudit, canonInput, driver, ui>>

\* seed main(): --all takes every fixture, otherwise the sample audit;
\* --refresh and --force set refresh.
SeedMain(all, refresh) ==
    /\ seed.pc = "off"
    /\ seed' = [pc |-> "insert", refresh |-> refresh,
                files |-> IF all THEN Fixtures ELSE <<Fixtures[1]>>]
    /\ UNCHANGED <<db, response, chain, receipt, conn, env, inflight, proofAudit, canonInput, driver, ui>>

\* The loader after seedFile returned for the first of its files.
SeedNextFile == 
    IF Len(seed.files) > 1
    THEN [seed EXCEPT !.pc = "insert", !.files = Tail(@)]
    ELSE SeedOff

\* seedFile: validate, insertAudit(payload), and what follows from result.
SeedInsert ==
    /\ seed.pc = "insert"
    /\ LET payload == Head(seed.files)
           r == insertAudit(db, payload)
       IN IF ~validator(payload) \/ r.threw
          THEN seed' = SeedOff /\ db' = r.db
          ELSE /\ db' = r.db
               /\ seed' = IF r.exists /\ seed.refresh
                          THEN [seed EXCEPT !.pc = "delete"]
                          ELSE SeedNextFile
    /\ UNCHANGED <<response, chain, receipt, conn, env, inflight, proofAudit, canonInput, driver, ui>>

\* seedFile, refresh: await deleteAudit(payload.auditId)
SeedDelete ==
    /\ seed.pc = "delete"
    /\ db' = deleteAudit(db, Head(seed.files).auditId)
    /\ seed' = [seed EXCEPT !.pc = "reinsert"]
    /\ UNCHANGED <<response, chain, receipt, conn, env, inflight, proofAudit, canonInput, driver, ui>>

\* seedFile, refresh: await insertAudit(payload) after the delete
SeedReinsert ==
    /\ seed.pc = "reinsert"
    /\ LET r == insertAudit(db, Head(seed.files)) IN
        /\ db' = r.db
        /\ seed' = IF r.threw THEN SeedOff ELSE SeedNextFile
    /\ UNCHANGED <<response, chain, receipt, conn, env, inflight, proofAudit, canonInput, driver, ui>>

NextOps ==
    \/ \E p \in OpsPayloads : OpsPostAudit(p)
    \/ OpsPostAuditor(AuditorInput(AddrB, "Beta", None, Some(TRUE)))
    \/ \E a \in AuditIds : OpsGet(a, F2.id)
    \/ \E a \in AuditIds, u \in AnchorUris, ok \in BOOLEAN : PostAnchorSend(a, u, ok)
    \/ \E tx \in inflight : PostAnchorStore(tx)
    \/ \E all \in BOOLEAN, refresh \in BOOLEAN : SeedMain(all, refresh)
    \/ SeedInsert
    \/ SeedDelete
    \/ SeedReinsert

SpecOps == InitOps /\ [][NextOps]_vars

\* Rows of audit a in the four tables keyed by audit_id.
AllRowsOf(d, a) ==
    <<RowsOf(d.audits, a), RowsOf(d.audit_findings, a),
      RowsOf(d.audit_signatures, a), RowsOf(d.audit_anchors, a)>>

\* C9: in every reachable state, deleting any audit leaves no audits,
\* audit_findings, audit_signatures or audit_anchors row of that auditId;
\* on the tables after the delete the audit, findings, proof, anchor and
\* anchors routes answer 404 for the id; the rows of every other audit and
\* the auditors table are unchanged.
C9_DeleteAuditCascades ==
    \A a \in AuditIds :
        LET after == deleteAudit(db, a) IN
        /\ AllRowsOf(after, a) = <<(<<>>), <<>>, <<>>, <<>>>>
        /\ getAudit(after, a).status = 404
        /\ getFindings(after, a, NoQuery).status = 404
        /\ \A f \in {F1.id, F2.id} : getProof(after, a, f).status = 404
        /\ getAnchors(after, a).status = 404
        /\ \A u \in AnchorUris :
                /\ ~postAnchorPrepare(after, env, a, u).proceed
                /\ postAnchorPrepare(after, env, a, u).response.status = 404
        /\ \A b \in AuditIds \ {a} : AllRowsOf(after, b) = AllRowsOf(db, b)
        /\ after.auditors = db.auditors

\* C9 witness: the seed loader has just deleted an audit that was anchored;
\* none of its rows is left while another audit keeps its anchor record and
\* an auditor is registered.
C9_Witness ==
    /\ seed.pc = "reinsert"
    /\ inflight = {}
    /\ LET a == Head(seed.files).auditId IN
        /\ chain.auditRoots[keccak256Id(a)] # Bytes32Zero
        /\ AllRowsOf(db, a) = <<(<<>>), <<>>, <<>>, <<>>>>
        /\ \E b \in AuditIds \ {a} :
              auditExists(db, b) /\ listAnchors(db, b) # <<>>
    /\ db.auditors # <<>>

\* C10: every step of the application keeps each stored anchor record as it
\* is, and a record that appears is the record of an anchor transaction
\* that the contract has accepted (its root is the root the chain holds).
C10_AnchorRecordsOnlyGrow ==
    [][/\ \A i \in 1..Len(db.audit_anchors) :
            \E j \in 1..Len(db'.audit_anchors) :
                db'.audit_anchors[j] = db.audit_anchors[i]
       /\ \A j \in 1..Len(db'.audit_anchors) :
            (\A i \in 1..Len(db.audit_anchors) :
                db.audit_anchors[i] # db'.audit_anchors[j]) =>
                \E tx \in inflight :
                    /\ AnchorRow(tx) = db'.audit_anchors[j]
                    /\ chain.auditRoots[keccak256Id(tx.auditId)] = tx.merkleRoot]_vars

(***************************************************************************)
(* SpecProof: the proof functions applied to one audit with any list of   *)
(* up to MaxFindings findings of the catalogue, in any order.              *)
(***************************************************************************)
MaxFindings == 3

\* Lists of distinct findings of the catalogue, in every order.
FindingLists ==
    LET picks == UNION {[1..n -> 1..Len(FindingCatalogue)] : n \in 1..MaxFindings} IN
    {[i \in DOMAIN p |-> FindingCatalogue[p[i]]] :
        p \in {q \in picks : \A i, j \in DOMAIN q : q[i] = q[j] => i = j}}

ProofPayloads == {Report(1, fs, None) : fs \in FindingLists}

CatalogueIds == {FindingCatalogue[i].id : i \in 1..Len(FindingCatalogue)}

InitProof ==
    /\ proofAudit \in ProofPayloads
    /\ canonInput = NoValue
    /\ driver = DriverIdle
    /\ ui = PageIdle
    /\ db = EmptyDb
    /\ response = NoResponse
    /\ chain = Constructor(Deployer)
    /\ receipt = NoReceipt
    /\ conn = NoConns
    /\ seed = NoSeed
    /\ env = NoEnv
    /\ inflight = NoInflight

\* const root = computeMerkleRoot(audit)
ComputeMerkleRoot ==
    /\ response' = [Resp("computeMerkleRoot", 0, "") EXCEPT
                      !.body = Some(computeMerkleRoot(proofAudit).root)]
    /\ UNCHANGED <<db, chain, receipt, conn, seed, env, inflight, proofAudit, canonInput, driver, ui>>

\* const proof = buildProofForFinding(audit, findingId)
BuildProofForFinding(findingId) ==
    /\ response' = [Resp("buildProofForFinding", 0, "") EXCEPT
                      !.body = buildProofForFinding(proofAudit, findingId)]
    /\ UNCHANGED <<db, chain, receipt, conn, seed, env, inflight, proofAudit, canonInput, driver, ui>>

NextProof ==
    \/ ComputeMerkleRoot
    \/ \E f \in CatalogueIds : BuildProofForFinding(f)

SpecProof == InitProof /\ [][NextProof]_vars

\* A verifier's fold of a proof: the sorted-pair hash of the running node
\* with each sibling, bottom to top.
RECURSIVE foldProof(_, _)
foldProof(node, proof) ==
    IF proof = <<>> THEN node
    ELSE foldProof(hashPair(node, Head(proof)), Tail(proof))

\* The least k with 2^k >= n.
CeilLog2(n) == CHOOSE k \in 0..n : 2 ^ k >= n /\ \A j \in 0..(k - 1) : 2 ^ j < n

\* C11: when the audit has n >= 1 findings of distinct ids, for every
\* finding f of it buildProofForFinding(audit, f.id) has the root of
\* computeMerkleRoot(audit); its proof folded from its leaf with the
\* sorted-pair hash gives that root; its leaf is f's hash; its leafIndex is
\* f's place in the sorted list; totalLeaves is n; and the proof has
\* ceil(log2(n)) entries.
C11_ProofRoundTrip ==
    DistinctFindingIds(proofAudit) =>
        \A k \in 1..Len(proofAudit.findings) :
            LET f == proofAudit.findings[k]
                n == Len(proofAudit.findings)
                got == buildProofForFinding(proofAudit, f.id)
                pr == Get(got)
            IN /\ IsSome(got)
               /\ pr.root = computeMerkleRoot(proofAudit).root
               /\ foldProof(pr.leaf, pr.proof) = pr.root
               /\ pr.leaf = hashFinding(f)
               /\ sortFindings(proofAudit.findings)[pr.leafIndex + 1] = f
               /\ pr.totalLeaves = n
               /\ Len(pr.proof) = CeilLog2(n)

\* C11 witness: the proof of the last of three leaves was just built, with
\* two entries.
C11_Witness ==
    /\ response.route = "buildProofForFinding"
    /\ DistinctFindingIds(proofAudit)
    /\ IsSome(response.body)
    /\ Get(response.body).totalLeaves = 3
    /\ Get(response.body).leafIndex = 2
    /\ Len(Get(response.body).proof) = 2

\* The reports that list the findings of audit in another order.
Reorderings(audit) ==
    {[audit EXCEPT !.findings = [i \in 1..Len(audit.findings) |-> audit.findings[pi[i]]]] :
        pi \in Permutations(1..Len(audit.findings))}

\* C12: when the audit's finding ids are distinct, for every reordering of
\* its findings list computeMerkleRoot gives the same root and
\* buildProofForFinding the same leaf, leafIndex, proof and root for each
\* finding id.
C12_SubmissionOrderIrrelevant ==
    DistinctFindingIds(proofAudit) =>
        \A other \in Reorderings(proofAudit) :
            /\ computeMerkleRoot(other).root = computeMerkleRoot(proofAudit).root
            /\ \A k \in 1..Len(proofAudit.findings) :
                buildProofForFinding(other, proofAudit.findings[k].id) =
                    buildProofForFinding(proofAudit, proofAudit.findings[k].id)

\* The place of an id under plain string comparison (by UTF-16 code unit):
\* digits, upper case, lower case, then U+00E9.
CodeUnitRank(id) ==
    CASE id = "10" -> 1 [] id = "9" -> 2 [] id = "B" -> 3 [] id = "F-1" -> 4
      [] id = "F-2" -> 5 [] id = "a" -> 6 [] id = "e+U+0301" -> 7
      [] id = "U+00E9" -> 8 [] OTHER -> 9

\* C13: when the audit's finding ids are distinct, for every two findings
\* a, b of it the leafIndex of a is smaller than the leafIndex of b exactly
\* when a.id < b.id as plain strings.
C13_LeafOrderIsPlainStringOrder ==
    DistinctFindingIds(proofAudit) =>
        \A i, j \in 1..Len(proofAudit.findings) :
            LET a == proofAudit.findings[i]
                b == proofAudit.findings[j]
            IN (Get(buildProofForFinding(proofAudit, a.id)).leafIndex
                    < Get(buildProofForFinding(proofAudit, b.id)).leafIndex)
               <=> CodeUnitRank(a.id) < CodeUnitRank(b.id)

\* The hashes of the audit's findings in leaf order, and the tree on them.
LeavesOf(audit) ==
    LET orderedFindings == sortFindings(audit.findings) IN
    [i \in 1..Len(orderedFindings) |-> hashFinding(orderedFindings[i])]

\* C14: with one finding the root is its leaf hash and its proof is empty;
\* with two findings the root is the hash of the two leaves concatenated
\* with the smaller first; every layer with an odd number of nodes pairs
\* its last node with itself; and hashPair(a, b) = hashPair(b, a) for all
\* nodes a, b below the root.
C14_SmallTreesAndOddLeaf ==
    LET leaves == LeavesOf(proofAudit)
        tree == buildMerkleTree(leaves)
        nodes == UNION {Range(tree.layers[l]) : l \in 1..(Len(tree.layers) - 1)}
    IN /\ Len(leaves) = 1 =>
            /\ computeMerkleRoot(proofAudit).root = leaves[1]
            /\ Get(buildProofForFinding(proofAudit, proofAudit.findings[1].id)).proof = <<>>
       /\ Len(leaves) = 2 =>
            computeMerkleRoot(proofAudit).root =
                IF leaves[1] <= leaves[2] THEN keccak256Concat(leaves[1], leaves[2])
                ELSE keccak256Concat(leaves[2], leaves[1])
       /\ \A l \in 1..(Len(tree.layers) - 1) :
            LET layer == tree.layers[l]
                above == tree.layers[l + 1]
            IN Len(layer) % 2 = 1 =>
                above[Len(above)] = keccak256Concat(layer[Len(layer)], layer[Len(layer)])
       /\ \A a, b \in nodes : hashPair(a, b) = hashPair(b, a)

\* C14 witness: the root of a tree of three leaves was just computed; it is
\* the pair hash of the first pair's hash and the third leaf paired with
\* itself.
C14_Witness ==
    LET leaves == LeavesOf(proofAudit) IN
    /\ response.route = "computeMerkleRoot"
    /\ Len(leaves) = 3
    /\ leaves[1] > leaves[2]
    /\ response.body = Some(hashPair(hashPair(leaves[1], leaves[2]),
                                     keccak256Concat(leaves[3], leaves[3])))

(***************************************************************************)
(* Canonicalization (normalizeValue, stableStringify).  A JavaScript value *)
(* is [t, p, kids]: a primitive with text p, undefined, an array of kids   *)
(* (entries with key ""), or an object whose kids are its own properties   *)
(* in property order.  JSON text is the sequence of its tokens.            *)
(***************************************************************************)
Prim(p) == [t |-> "prim", p |-> p, kids |-> <<>>]
Undefined == [t |-> "undef", p |-> "", kids |-> <<>>]
Entry(k, v) == [k |-> k, v |-> v]
Arr(items) == [t |-> "arr", p |-> "", kids |-> [i \in 1..Len(items) |-> Entry("", items[i])]]

\* Keys that are array indices ("9", "10") and their numeric value.
IntegerKey(k) == CASE k = "9" -> 9 [] k = "10" -> 10 [] OTHER -> -1

\* Entries ordered as an object keeps them: integer keys first in numeric
\* order, then the other keys in the order they were assigned.
RECURSIVE sortIntegerKeys(_)
sortIntegerKeys(entries) ==
    IF entries = <<>> THEN <<>>
    ELSE LET rest == sortIntegerKeys(Tail(entries))
             h == Head(entries)
         IN SelectSeq(rest, LAMBDA e : IntegerKey(e.k) < IntegerKey(h.k))
            \o <<h>>
            \o SelectSeq(rest, LAMBDA e : IntegerKey(e.k) >= IntegerKey(h.k))

PropertyOrder(entries) ==
    sortIntegerKeys(SelectSeq(entries, LAMBDA e : IntegerKey(e.k) >= 0))
    \o SelectSeq(entries, LAMBDA e : IntegerKey(e.k) < 0)

\* An object built by assigning the entries in the order given.
Obj(entries) == [t |-> "obj", p |-> "", kids |-> PropertyOrder(entries)]

\* entries.sort(([a], [b]) => a.localeCompare(b)): a stable sort.
RECURSIVE sortEntries(_)
sortEntries(entries) ==
    IF entries = <<>> THEN <<>>
    ELSE LET rest == sortEntries(Tail(entries))
             h == Head(entries)
         IN SelectSeq(rest, LAMBDA e : localeCompare(h.k, e.k) > 0)
            \o <<h>>
            \o SelectSeq(rest, LAMBDA e : localeCompare(h.k, e.k) <= 0)

\* normalizeValue(value)
RECURSIVE normalizeValue(_)
normalizeValue(value) ==
    IF value.t = "arr"
    THEN [value EXCEPT !.kids = [i \in 1..Len(@) |-> Entry("", normalizeValue(@[i].v))]]
    ELSE IF value.t = "obj"
    THEN LET entries == sortEntries(SelectSeq(value.kids, LAMBDA e : e.v.t # "undef"))
         IN Obj([i \in 1..Len(entries) |->
                    Entry(entries[i].k, normalizeValue(entries[i].v))])
    ELSE value

\* JSON.stringify(value): own properties in property order, undefined
\* properties left out, undefined array items written as null.
RECURSIVE stringifyKids(_, _)
RECURSIVE stringify(_)
stringify(value) ==
    CASE value.t = "prim" -> <<value.p>>
      [] value.t = "undef" -> <<"null">>
      [] value.t = "arr" -> <<"[">> \o stringifyKids(value.kids, FALSE) \o <<"]">>
      [] OTHER -> <<"{">> \o stringifyKids(
                                SelectSeq(value.kids, LAMBDA e : e.v.t # "undef"), TRUE)
                         \o <<"}">>

stringifyKids(kids, named) ==
    IF kids = <<>> THEN <<>>
    ELSE (IF named THEN <<Head(kids).k, ":">> ELSE <<>>)
         \o stringify(Head(kids).v)
         \o (IF Len(kids) > 1 THEN <<",">> ELSE <<>>)
         \o stringifyKids(Tail(kids), named)

\* stableStringify(value)
stableStringify(value) == stringify(normalizeValue(value))

(***************************************************************************)
(* SpecCanon: a value is drawn and canonicalized.                          *)
(***************************************************************************)
MaxKeys == 2

CanonKeys == {"10", "9", "a", "B", "U+00E9", "e+U+0301"}

\* Property values: a primitive, undefined, arrays in two orders, and an
\* object written with its keys in two orders.
CanonLeaves ==
    {Prim("1"), Undefined,
     Arr(<<Prim("1"), Prim("2")>>), Arr(<<Prim("2"), Undefined>>),
     Obj(<<Entry("a", Prim("1")), Entry("B", Prim("2"))>>),
     Obj(<<Entry("B", Prim("2")), Entry("a", Prim("1"))>>)}

\* Objects of up to MaxKeys distinct keys, assigned in every order.
CanonObjects ==
    {Obj([i \in DOMAIN ks |-> Entry(ks[i], vs[i])]) :
        <<ks, vs>> \in UNION {
            {q \in [1..n -> CanonKeys] : \A i, j \in 1..n : q[i] = q[j] => i = j}
                \X [1..n -> CanonLeaves] : n \in 1..MaxKeys}}

CanonInputs == CanonObjects \cup CanonLeaves

InitCanon ==
    /\ canonInput \in CanonInputs
    /\ driver = DriverIdle
    /\ ui = PageIdle
    /\ proofAudit = NoAudit
    /\ db = EmptyDb
    /\ response = NoResponse
    /\ chain = Constructor(Deployer)
    /\ receipt = NoReceipt
    /\ conn = NoConns
    /\ seed = NoSeed
    /\ env = NoEnv
    /\ inflight = NoInflight

\* normalizeValue(value)
NormalizeValue ==
    /\ response' = [Resp("normalizeValue", 0, "") EXCEPT
                      !.body = Some(normalizeValue(canonInput))]
    /\ UNCHANGED <<db, chain, receipt, conn, seed, env, inflight, proofAudit, canonInput, driver, ui>>

\* stableStringify(value)
StableStringify ==
    /\ response' = [Resp("stableStringify", 0, "") EXCEPT
                      !.body = Some(stableStringify(canonInput))]
    /\ UNCHANGED <<db, chain, receipt, conn, seed, env, inflight, proofAudit, canonInput, driver, ui>>

NextCanon == NormalizeValue \/ StableStringify

SpecCanon == InitCanon /\ [][NextCanon]_vars

\* The values structurally equal to value: objects with the same defined
\* properties assigned in any order (with or without one more property
\* whose value is undefined), arrays with the same items in the same order.
RECURSIVE SameStructure(_)
SameStructure(value) ==
    IF value.t = "arr"
    THEN {[value EXCEPT !.kids = [i \in 1..Len(@) |-> Entry("", items[i])]] :
            items \in {f \in [1..Len(value.kids) -> UNION {SameStructure(value.kids[i].v)
                                                            : i \in 1..Len(value.kids)}] :
                        \A i \in 1..Len(value.kids) : f[i] \in SameStructure(value.kids[i].v)}}
    ELSE IF value.t = "obj"
    THEN LET defined == SelectSeq(value.kids, LAMBDA e : e.v.t # "undef")
             n == Len(defined)
             kidChoices ==
                {f \in [1..n -> UNION {SameStructure(defined[i].v) : i \in 1..n}] :
                    \A i \in 1..n : f[i] \in SameStructure(defined[i].v)}
             orders == IF n = 0 THEN {<<>>} ELSE Permutations(1..n)
             free == CHOOSE k \in CanonKeys \cup {"z"} :
                        \A i \in 1..n : defined[i].k # k
         IN UNION {{Obj([i \in 1..n |-> Entry(defined[pi[i]].k, f[pi[i]])]),
                    Obj(<<Entry(free, Undefined)>>
                        \o [i \in 1..n |-> Entry(defined[pi[i]].k, f[pi[i]])])}
                        : <<pi, f>> \in orders \X kidChoices}
    ELSE {value}

\* C15: canonicalizing a canonicalized value returns it unchanged and gives
\* the same text; every value that is structurally equal to the input but
\* lists its keys in another order, or differs only in properties whose
\* value is undefined, canonicalizes to the same text; the items of an
\* array keep their order.
C15_CanonicalizationIsStable ==
    /\ normalizeValue(normalizeValue(canonInput)) = normalizeValue(canonInput)
    /\ stableStringify(normalizeValue(canonInput)) = stableStringify(canonInput)
    /\ \A other \in SameStructure(canonInput) :
            stableStringify(other) = stableStringify(canonInput)
    /\ canonInput.t = "arr" =>
            \A i \in 1..Len(canonInput.kids) :
                normalizeValue(canonInput).kids[i].v = normalizeValue(canonInput.kids[i].v)

(***************************************************************************)
(* SpecRead: the read routes against a store that audits and auditors are  *)
(* posted to and audits are deleted from.                                  *)
(***************************************************************************)
\* Bodies of POST /v1/audits: two findings out of id order, one, none.
ReadPayloads ==
    UNION {{Report(a, <<F2, F1>>, None),
            Report(a, <<F1b>>, None),
            Report(a, <<>>, None)} : a \in AuditIds}

\* Values of a limit or offset query parameter.
QueryValues ==
    {None} \cup {Some(s) : s \in {"", " ", "abc", "Infinity", "-Infinity"}
                                    \cup DOMAIN NumericLiterals}

Queries == [limit : QueryValues, offset : QueryValues]

\* The queries the list routes are requested with.
Query(limit, offset) == [limit |-> Some(limit), offset |-> Some(offset)]
PageRequests ==
    {NoQuery, Query("10000", "-5"), Query(" ", " "), Query("abc", "abc"),
     Query("1", "1"), Query("1", "2"), Query("1.5", "1.5"), Query("Infinity", "10001")}

AddressParams == {AddrA, "0xaa", AddrB, "nope"}

InitRead ==
    /\ db = EmptyDb
    /\ response = NoResponse
    /\ chain = Constructor(Deployer)
    /\ receipt = NoReceipt
    /\ conn = NoConns
    /\ seed = NoSeed
    /\ env = NoEnv
    /\ inflight = NoInflight
    /\ proofAudit = NoAudit
    /\ canonInput = NoValue
    /\ driver = DriverIdle
    /\ ui = PageIdle

ReadPostAudit(payload) ==
    /\ LET r == postAudits(db, payload) IN db' = r.db /\ response' = r.response
    /\ UNCHANGED <<chain, receipt, conn, seed, env, inflight, proofAudit, canonInput, driver, ui>>

ReadPostAuditor(payload) ==
    /\ LET r == postAuditors(db, payload) IN db' = r.db /\ response' = r.response
    /\ UNCHANGED <<chain, receipt, conn, seed, env, inflight, proofAudit, canonInput, driver, ui>>

\* deleteAudit(auditId), as the seed loader calls it
ReadDeleteAudit(auditId) ==
    /\ db' = deleteAudit(db, auditId)
    /\ response' = NoResponse
    /\ UNCHANGED <<chain, receipt, conn, seed, env, inflight, proofAudit, canonInput, driver, ui>>

ReadGetAudit(auditId) ==
    /\ response' = getAudit(db, auditId)
    /\ UNCHANGED <<db, chain, receipt, conn, seed, env, inflight, proofAudit, canonInput, driver, ui>>

GetAudits(query) ==
    /\ response' = getAudits(db, query)
    /\ UNCHANGED <<db, chain, receipt, conn, seed, env, inflight, proofAudit, canonInput, driver, ui>>

GetAuditors(query) ==
    /\ response' = getAuditors(db, query)
    /\ UNCHANGED <<db, chain, receipt, conn, seed, env, inflight, proofAudit, canonInput, driver, ui>>

GetAuditor(address) ==
    /\ response' = getAuditor(db, address)
    /\ UNCHANGED <<db, chain, receipt, conn, seed, env, inflight, proofAudit, canonInput, driver, ui>>

GetFindings(auditId, query) ==
    /\ response' = getFindings(db, auditId, query)
    /\ UNCHANGED <<db, chain, receipt, conn, seed, env, inflight, proofAudit, canonInput, driver, ui>>

NextRead ==
    \/ \E p \in ReadPayloads : ReadPostAudit(p)
    \/ \E p \in AuditorPayloads : ReadPostAuditor(p)
    \/ \E a \in AuditIds : ReadDeleteAudit(a)
    \/ \E a \in AuditIds : ReadGetAudit(a)
    \/ \E q \in PageRequests : GetAudits(q)
    \/ \E q \in PageRequests : GetAuditors(q)
    \/ \E address \in AddressParams : GetAuditor(address)
    \/ \E a \in AuditIds, q \in PageRequests : GetFindings(a, q)

SpecRead == InitRead /\ [][NextRead]_vars

\* lo <= n <= hi
Within(n, lo, hi) == n.k = "num" /\ ~Less(n, Whole(lo)) /\ ~Less(Whole(hi), n)

\* Query values that are no number: empty, blank, or words.
NonNumeric == {Some(""), Some(" "), Some("abc")}

\* What the three list routes answer to a query, with each route's default.
ListAnswers(query) ==
    {[default |-> 20, response |-> getAudits(db, query)],
     [default |-> 20, response |-> getAuditors(db, query)]}
    \cup {[default |-> 50, response |-> getFindings(db, a, query)] : a \in AuditIds}

\* C16: on the three list routes, for every limit and offset parameter, the
\* limit reported and the limit handed to the query are within [1,200] and
\* the offsets within [0,10000]; limit=10000 gives 200, offset=-5 gives 0,
\* an absent or non-numeric limit gives the route's default (20 for audits
\* and auditors, 50 for findings), an absent or non-numeric offset gives 0.
C16_PaginationBounds ==
    \A query \in Queries : \A answer \in ListAnswers(query) :
        answer.response.status = 200 =>
            LET page == Get(answer.response.body).pagination IN
            /\ Within(page.limit, 1, 200)
            /\ Within(page.offset, 0, 10000)
            /\ Within(sanitizeLimit(page.limit, 200, answer.default), 1, 200)
            /\ Within(sanitizeOffset(page.offset, 10000), 0, 10000)
            /\ query.limit = Some("10000") => page.limit = Whole(200)
            /\ query.offset = Some("-5") => page.offset = Whole(0)
            /\ query.limit \in {None} \cup NonNumeric => page.limit = Whole(answer.default)
            /\ query.offset \in {None} \cup NonNumeric => page.offset = Whole(0)

\* Queries of the findings route: limits and offsets below, at and past the
\* number of findings of an audit.
FindingQueries ==
    [limit : {None, Some("1"), Some("1.5"), Some("200"), Some("abc")},
     offset : {None, Some("0"), Some("1"), Some("1.5"), Some("2"), Some("10000")}]

\* The findings of a stored audit in ascending id order.
StoredFindings(auditId) == sortFindings(Get(getAuditRaw(db, auditId)).findings)

\* C17: the findings route answers 404 not_found exactly when no audit with
\* the id is stored.  For a stored audit it answers 200 with the audit id,
\* the total number of its findings and the page of them the limit and
\* offset select, in ascending id order: an empty page with total 0 when the
\* audit has no findings, an empty page when the offset is at or past the
\* total, a non-empty page otherwise.
C17_FindingsOfStoredAudit ==
    \A a \in AuditIds, query \in FindingQueries :
        LET answer == getFindings(db, a, query) IN
        /\ (answer.status = 404 /\ answer.error = "not_found") <=> ~auditExists(db, a)
        /\ auditExists(db, a) =>
            /\ answer.status = 200
            /\ answer.auditId = a
            /\ LET page == Get(answer.body)
                   all == StoredFindings(a)
                   skip == page.pagination.offset.v \div 10
                   take == page.pagination.limit.v \div 10
               IN /\ page.auditId = a
                  /\ page.pagination.total = Len(all)
                  /\ Len(all) = 0 => page.items = <<>>
                  /\ ~Less(page.pagination.offset, Whole(Len(all))) => page.items = <<>>
                  /\ Less(page.pagination.offset, Whole(Len(all))) => page.items # <<>>
                  /\ Len(page.items) <= take
                  /\ \A i \in 1..Len(page.items) : page.items[i] = all[skip + i]
                  /\ Len(page.items) < take => skip + Len(page.items) >= Len(all)

\* The route has answered 200 with an empty page and total 0 for a stored
\* audit without findings.
C17_Witness ==
    /\ response.route = "GET /v1/audits/:auditId/findings"
    /\ response.status = 200
    /\ auditExists(db, response.auditId)
    /\ Get(response.body).items = <<>>
    /\ Get(response.body).pagination.total = 0

(***************************************************************************)
(* Refusals of the anchor route, under SpecOps.                            *)
(***************************************************************************)
\* Every setting of the three configuration keys: unset, empty, set.
Envs == [Range(AnchorEnvKeys) -> {None, Some(""), Some("set")}]

\* The configuration keys that are unset or empty in e.
AbsentKeys(e) == {k \in Range(AnchorEnvKeys) : e[k] = None \/ e[k] = Some("")}

\* C18: the anchor route answers 404 not_found when the audit is not
\* stored; for a stored audit with any of the three configuration keys
\* unset or empty it answers 400 anchor_config_missing and `missing` lists
\* exactly the absent keys, each once.  A request refused in either way
\* leaves the contract, the transactions in flight and every table as they
\* were.
C18_AnchorRefusedWithoutEffect ==
    /\ [](\A a \in AuditIds, u \in AnchorUris, e \in Envs :
            LET pre == postAnchorPrepare(db, e, a, u) IN
            /\ ~auditExists(db, a) =>
                  /\ ~pre.proceed
                  /\ pre.response.status = 404
                  /\ pre.response.error = "not_found"
            /\ auditExists(db, a) /\ AbsentKeys(e) # {} =>
                  /\ ~pre.proceed
                  /\ pre.response.status = 400
                  /\ pre.response.error = "anchor_config_missing"
                  /\ Range(pre.response.missing) = AbsentKeys(e)
                  /\ Len(pre.response.missing) = Cardinality(AbsentKeys(e))
            /\ auditExists(db, a) /\ AbsentKeys(e) = {} =>
                  pre.response.status \notin {400, 404})
    /\ [][\A a \in AuditIds, u \in AnchorUris, ok \in BOOLEAN :
            (~auditExists(db, a) \/ AbsentKeys(env) # {}) /\ PostAnchorSend(a, u, ok) =>
                  /\ response' = postAnchorPrepare(db, env, a, u).response
                  /\ response'.status \in {400, 404}
                  /\ chain' = chain
                  /\ inflight' = inflight
                  /\ db' = db]_vars

\* The route has answered 400 naming the unset RPC URL and the empty
\* contract address for a stored audit; nothing was anchored or recorded.
C18_Witness ==
    /\ response.route = "POST /v1/audits/:auditId/anchor"
    /\ response.status = 400
    /\ response.error = "anchor_config_missing"
    /\ response.missing = <<"ANCHOR_RPC_URL", "ANCHOR_CONTRACT_ADDRESS">>
    /\ \E a \in AuditIds : auditExists(db, a)
    /\ db.audit_anchors = <<>>
    /\ \A a \in AuditIds : chain.auditRoots[keccak256Id(a)] = Bytes32Zero
    /\ inflight = {}

(***************************************************************************)
(* Read after write, under SpecRead.                                       *)
(***************************************************************************)
\* The record POST /v1/auditors stores for a payload.
AuditorRecord(payload) ==
    [address |-> getAddress(payload.address), name |-> trim(payload.name),
     website |-> payload.website, identity |-> payload.identity,
     publicKey |-> payload.publicKey,
     active |-> IF IsSome(payload.active) THEN Get(payload.active) ELSE TRUE]

C20_SubmissionStoresItsSignature ==
    [][\A b \in SubmissionBodies :
        response'.status = 201 /\ PostSubmission(b) =>
            LET audit == Get(b.audit)
                given == Get(b.signature)
                own == IF IsSome(audit.signatures) THEN Get(audit.signatures) ELSE <<>>
                entry == [signer |-> getAddress(given.signer),
                          signature |-> given.signature,
                          scheme |-> IF IsSome(given.scheme) THEN Get(given.scheme)
                                     ELSE "eip191",
                          signedAt |-> given.signedAt]
                stored == getAuditRaw(db', audit.auditId)
            IN /\ IsSome(stored)
               /\ Get(stored) = [audit EXCEPT !.signatures = Some(own \o <<entry>>)]
               /\ entry.scheme = "eip191"
               /\ ~IsSome(audit.signatures) => Len(Get(Get(stored).signatures)) = 1
               /\ RowsOf(db'.audit_signatures, audit.auditId)
                     = [i \in 1..Len(own) + 1 |->
                          SignatureRow(audit.auditId, (own \o <<entry>>)[i])]
               /\ response'.signer = entry.signer
               /\ response'.verified
               /\ response'.auditId = audit.auditId]_vars

\* A submission of an audit that carries a signature of its own has been
\* answered 201: the stored list is that signature followed by the
\* verified one.
C20_Witness ==
    /\ response.route = "POST /v1/submissions"
    /\ response.status = 201
    /\ response.verified
    /\ LET stored == getAuditRaw(db, response.auditId) IN
        /\ IsSome(stored)
        /\ Len(Get(Get(stored).signatures)) = 2
        /\ Get(Get(stored).signatures)[1] = OpaqueSignature
        /\ Get(Get(stored).signatures)[2].signer = response.signer
        /\ Get(Get(stored).signatures)[2].scheme = "eip191"

(***************************************************************************)
(* The auditor registry, under SpecRead.                                   *)
(***************************************************************************)
\* The checksummed spellings of the chain addresses.
Checksummed == {"0xAa", "0xBb"}

\* Two spellings of one chain address.
SameChainAddress(a, b) ==
    \/ a = b
    \/ {a, b} = {"0xAa", "0xaa"}
    \/ {a, b} = {"0xBb", "0xbb"}

RegisteredAddresses(d) == {d.auditors[i].address : i \in 1..Len(d.auditors)}

\* C21: the registry holds at most one entry per chain address, whatever
\* letter case the requests used; every stored address, every address in a
\* listing, in GET /v1/auditors/:address and in the answer of POST
\* /v1/auditors is checksummed; no step removes a registered address.
C21_RegistryKeyedByChecksumAddress ==
    /\ [](/\ \A i, j \in 1..Len(db.auditors) :
               SameChainAddress(db.auditors[i].address, db.auditors[j].address) => i = j
          /\ RegisteredAddresses(db) \subseteq Checksummed
          /\ \A query \in PageRequests :
               LET items == Get(getAuditors(db, query).body).items IN
               \A i \in 1..Len(items) : items[i].address \in Checksummed
          /\ \A address \in AddressParams :
               getAuditor(db, address).status = 200 =>
                   /\ Get(getAuditor(db, address).body).address \in Checksummed
                   /\ SameChainAddress(Get(getAuditor(db, address).body).address, address)
          /\ response.route = "POST /v1/auditors" /\ response.status = 200 =>
                   /\ response.signer \in Checksummed
                   /\ Get(response.body).address \in Checksummed)
    /\ [][RegisteredAddresses(db) \subseteq RegisteredAddresses(db')]_vars

\* Both addresses are registered, one entry each, after the first was
\* posted again with active = false.
C21_Witness ==
    /\ response.route = "POST /v1/auditors"
    /\ response.status = 200
    /\ RegisteredAddresses(db) = {AddrA, AddrB}
    /\ Len(db.auditors) = 2
    /\ ~Get(getAuditorByAddress(db, AddrA)).active

(***************************************************************************)
(* Concurrent anchor requests, under SpecOps.  A request is between its    *)
(* two steps while its transaction result is in inflight.                  *)
(***************************************************************************)
InflightOf(auditId) == {tx \in inflight : tx.auditId = auditId}

NoFindings(a) == auditExists(db, a) /\ Get(getAuditRaw(db, a)).findings = <<>>

\* C23: for a stored audit without findings computeMerkleRoot raises; with
\* the configuration present the anchor route fails on it with an error
\* answer and leaves the contract, the transactions in flight and the
\* tables as they were; the proof route answers 404 finding_not_found for
\* every finding id.
C23_NoFindingsNoAnchor ==
    /\ [](\A a \in AuditIds : NoFindings(a) =>
            /\ computeMerkleRoot(Get(getAuditRaw(db, a))).threw
            /\ \A u \in AnchorUris :
                  /\ ~postAnchorPrepare(db, FullEnv, a, u).proceed
                  /\ postAnchorPrepare(db, FullEnv, a, u).response.status = 500
            /\ \A f \in CatalogueIds :
                  /\ getProof(db, a, f).status = 404
                  /\ getProof(db, a, f).error = "finding_not_found")
    /\ [][\A a \in AuditIds, u \in AnchorUris, ok \in BOOLEAN :
            /\ env = FullEnv
            /\ NoFindings(a)
            /\ PostAnchorSend(a, u, ok)
            => /\ response'.route = "POST /v1/audits/:auditId/anchor"
               /\ response'.status = 500
               /\ chain' = chain
               /\ inflight' = inflight
               /\ db' = db]_vars

\* The anchor route has answered with an error for the only stored audit,
\* which has no findings; nothing was anchored or recorded.
C23_Witness ==
    /\ env = FullEnv
    /\ response.route = "POST /v1/audits/:auditId/anchor"
    /\ response.status = 500
    /\ \E a \in AuditIds :
          /\ NoFindings(a)
          /\ \A b \in AuditIds \ {a} : ~auditExists(db, b)
    /\ \A a \in AuditIds : chain.auditRoots[keccak256Id(a)] = Bytes32Zero
    /\ db.audit_anchors = <<>>
    /\ inflight = {}

(***************************************************************************)
(* The seed loader's seedFile, under SpecOps.                              *)
(***************************************************************************)
\* The tables hold payload P whole: its raw payload and its rows.
Seeded(d, P) ==
    /\ getAuditRaw(d, P.auditId) = Some(P)
    /\ StoredWhole(d, P.auditId)

\* C24: seedFile for a valid fixture payload P.  With no audit of P's id
\* stored it inserts P.  With one stored, in default mode it leaves the
\* tables unchanged and goes on to the next file; in refresh mode it deletes
\* the audit and inserts P again, and when it returns the tables hold P
\* whole.
C24_SeedFile ==
    [][LET P == Head(seed.files) IN
       /\ SeedInsert /\ ~auditExists(db, P.auditId) =>
              Seeded(db', P) /\ seed' = SeedNextFile
       /\ SeedInsert /\ auditExists(db, P.auditId) /\ ~seed.refresh =>
              db' = db /\ seed' = SeedNextFile
       /\ SeedInsert /\ auditExists(db, P.auditId) /\ seed.refresh =>
              db' = db /\ seed'.pc = "delete"
       /\ SeedDelete => StoredNothing(db', P.auditId)
       /\ SeedReinsert => Seeded(db', P) /\ seed' = SeedNextFile]_vars

(***************************************************************************)
(* The development driver (scripts/dev-up): main, runSeedWithRetry,        *)
(* waitForHealth.                                                          *)
(*                                                                         *)
(* driver.pc is the statement main() stands at.  execSync steps take their *)
(* outcome from the command run.  The API child changes state by itself;   *)
(* its exit and error events reject apiFailed and are seen by main() only  *)
(* while it awaits the race.  Time is counted in whole seconds.            *)
(***************************************************************************)
attempts == 8               \* const attempts = 8
seedDelaySeconds == 2       \* delay(2_000)
healthTimeoutSeconds == 45  \* waitForHealth(healthUrl, 45_000)
pollDelaySeconds == 1       \* delay(1_000)
fetchTimeoutSeconds == 1    \* AbortSignal.timeout(1_000)

\* main().catch: the message is printed and the process exits with code 1.
mainRejected(d, error) ==
    [d EXCEPT !.pc = "exit", !.error = Some(error), !.exitCode = Some(1)]

\* An execSync of main() before the seed loop: a failing command throws.
execStep(d, ok, next) ==
    IF ok THEN [d EXCEPT !.pc = next] ELSE mainRejected(d, "exec")

\* The catch block of runSeedWithRetry with a one-off loop bound.
seedFailed_oneMore(d) ==
    IF d.index = attempts + 1
      THEN mainRejected(d, "seed")
      ELSE [d EXCEPT !.pc = "delay"]

\* The catch block of runSeedWithRetry: the last attempt rethrows, any
\* earlier one goes on to the delay.
seedFailed(d) ==
    IF d.index = attempts
      THEN mainRejected(d, "seed")
      ELSE [d EXCEPT !.pc = "delay"]

\* One iteration of runSeedWithRetry up to the outcome of execSync.
seedAttempt(d, ok) ==
    LET ran == [d EXCEPT !.seedRuns = @ + 1] IN
    IF ok THEN [ran EXCEPT !.pc = "spawn"] ELSE seedFailed(ran)

\* await delay(2_000); index += 1
seedDelay(d) ==
    [d EXCEPT !.pc = "seed", !.seedDelays = @ + 1, !.index = @ + 1]

\* The states of the API child in which apiFailed is rejected: an "error"
\* event, or an "exit" event with a non-zero code.  Exit code 0 and an exit
\* by signal (code null) leave apiFailed pending.
apiFailed(d) == d.apiProcess \in {"error", "exitN"}

\* The child process is running.
alive(d) == d.apiProcess \in {"starting", "listening"}

\* waitForHealth without the elapsed-time test of its loop.
waitForHealth_noTimeout(d, ok, fetchSeconds) ==
    IF ok
      THEN [d EXCEPT !.pc = "smoke"]
      ELSE [d EXCEPT !.waited =
                IF @ < healthTimeoutSeconds
                  THEN @ + fetchSeconds + pollDelaySeconds ELSE @]

\* One turn of the loop of waitForHealth: past the timeout it throws, which
\* takes main() to its finally block; a successful response returns, which
\* takes main() to the smoke run; otherwise it sleeps and loops.
waitForHealth(d, ok, fetchSeconds) ==
    IF d.waited >= healthTimeoutSeconds
      THEN [d EXCEPT !.pc = "finally", !.error = Some("health_timeout")]
      ELSE IF ok
        THEN [d EXCEPT !.pc = "smoke"]
        ELSE [d EXCEPT !.waited = @ + fetchSeconds + pollDelaySeconds]

\* The finally block of main() that only signals a child still running.
finallyBlock_onlyIfAlive(d) ==
    LET signalled == alive(d) IN
    [d EXCEPT !.pc = "exit",
              !.killCalls = IF signalled THEN @ + 1 ELSE @,
              !.killed = signalled,
              !.apiProcess = IF signalled THEN "signal" ELSE @,
              !.exitCode = Some(IF IsSome(d.error) THEN 1 ELSE 0)]

\* The finally block of main(): apiProcess.kill("SIGINT") unless
\* apiProcess.killed.  kill() returns true, and sets killed, only when the
\* signal was delivered.
finallyBlock(d) ==
    IF d.killed
      THEN [d EXCEPT !.pc = "exit",
                     !.exitCode = Some(IF IsSome(d.error) THEN 1 ELSE 0)]
      ELSE [d EXCEPT !.pc = "exit",
                     !.killCalls = @ + 1,
                     !.killed = alive(d),
                     !.apiProcess = IF alive(d) THEN "signal" ELSE @,
                     !.exitCode = Some(IF IsSome(d.error) THEN 1 ELSE 0)]

DriverStart == [DriverIdle EXCEPT !.pc = "infra"]

InitDriver ==
    /\ chain = Constructor(Deployer)
    /\ receipt = NoReceipt
    /\ db = EmptyDb
    /\ response = NoResponse
    /\ conn = NoConns
    /\ seed = NoSeed
    /\ env = NoEnv
    /\ inflight = NoInflight
    /\ proofAudit = NoAudit
    /\ canonInput = NoValue
    /\ driver = DriverStart
    /\ ui = PageIdle

DriverRest == <<chain, receipt, db, response, conn, seed, env, inflight, proofAudit, canonInput, ui>>

\* execSync("npm run infra:up")
InfraUp ==
    /\ driver.pc = "infra"
    /\ \E ok \in BOOLEAN : driver' = execStep(driver, ok, "build")
    /\ UNCHANGED DriverRest

\* execSync("npm run build:api")
BuildApi ==
    /\ driver.pc = "build"
    /\ \E ok \in BOOLEAN : driver' = execStep(driver, ok, "seed")
    /\ UNCHANGED DriverRest

\* runSeedWithRetry: execSync("npm run seed") and its catch block.
SeedAttempt ==
    /\ driver.pc = "seed"
    /\ \E ok \in BOOLEAN : driver' = seedAttempt(driver, ok)
    /\ UNCHANGED DriverRest

\* runSeedWithRetry: the delay between two attempts.
SeedDelay ==
    /\ driver.pc = "delay"
    /\ driver' = seedDelay(driver)
    /\ UNCHANGED DriverRest

\* spawn("npm", ["run", "start:api"]) and the start of the race.
SpawnApi ==
    /\ driver.pc = "spawn"
    /\ driver' = [driver EXCEPT !.pc = "race", !.apiProcess = "starting",
                                !.healthRan = TRUE]
    /\ UNCHANGED DriverRest

\* The API child starts listening.
ChildListens ==
    /\ driver.apiProcess = "starting"
    /\ driver.pc # "exit"
    /\ driver' = [driver EXCEPT !.apiProcess = "listening"]
    /\ UNCHANGED DriverRest

\* The API child ends by itself: a spawn error, exit code 0, a non-zero
\* exit code, or a signal from outside.
ChildEnds ==
    /\ alive(driver)
    /\ driver.pc # "exit"
    /\ \E how \in {"error", "exit0", "exitN", "signal"} :
          /\ how = "error" => driver.apiProcess = "starting"
          /\ driver' = [driver EXCEPT !.apiProcess = how]
    /\ UNCHANGED DriverRest

\* Promise.race settles with the rejection of apiFailed.
RaceApiFailed ==
    /\ driver.pc = "race"
    /\ apiFailed(driver)
    /\ driver' = [driver EXCEPT !.pc = "finally", !.error = Some("api_failed")]
    /\ UNCHANGED DriverRest

\* One turn of waitForHealth; only a listening child answers, and it may
\* answer with a non-2xx status.
HealthPoll ==
    /\ driver.pc = "race"
    /\ \E ok \in BOOLEAN, fetchSeconds \in 0..fetchTimeoutSeconds :
          /\ ok => driver.apiProcess = "listening"
          /\ driver' = waitForHealth(driver, ok, fetchSeconds)
    /\ UNCHANGED DriverRest

\* execSync("npm run smoke")
Smoke ==
    /\ driver.pc = "smoke"
    /\ \E ok \in BOOLEAN :
          driver' = [driver EXCEPT !.pc = "finally", !.smokeRan = TRUE,
                                   !.error = IF ok THEN None ELSE Some("smoke")]
    /\ UNCHANGED DriverRest

\* finally { if (!apiProcess.killed) apiProcess.kill("SIGINT") }
Finally ==
    /\ driver.pc = "finally"
    /\ driver' = finallyBlock(driver)
    /\ UNCHANGED DriverRest

\* The steps main() takes itself.
DriverStep ==
    \/ InfraUp
    \/ BuildApi
    \/ SeedAttempt
    \/ SeedDelay
    \/ SpawnApi
    \/ RaceApiFailed
    \/ HealthPoll
    \/ Smoke
    \/ Finally

NextDriver ==
    \/ InfraUp
    \/ BuildApi
    \/ SeedAttempt
    \/ SeedDelay
    \/ SpawnApi
    \/ ChildListens
    \/ ChildEnds
    \/ RaceApiFailed
    \/ HealthPoll
    \/ Smoke
    \/ Finally

SpecDriver == InitDriver /\ [][NextDriver]_vars

\* Node runs main() to completion: a step of main() that stays enabled is
\* taken.  Nothing is assumed of the child.
SpecDriverLive == InitDriver /\ [][NextDriver]_vars /\ WF_vars(DriverStep)

(***************************************************************************)
(* The seed retry loop of the driver.                                      *)
(***************************************************************************)
\* The seed loop is still running.
InSeedLoop == driver.pc \in {"seed", "delay"}

\* The seed loop gave up: its last error reached main().catch.
SeedGaveUp == driver.pc = "exit" /\ driver.error = Some("seed")

\* The seed loop returned: main() went on to spawn the API.
SeedReturned == driver.pc \in {"spawn", "race", "smoke", "finally"} \/
                (driver.pc = "exit" /\ driver.error \notin {Some("seed"), Some("exec")})

\* C25: the seed retry loop of the development driver terminates.  It runs
\* the seed command at most 8 times and only inside the loop, it returns at
\* the first run that succeeds (every run before the last one made has
\* failed and was followed by one 2-second delay, the last one made was not),
\* and when all 8 runs fail the last error is raised: the driver exits with
\* code 1 having spawned no API child, run no health wait and no smoke check.
C25_SeedRetryTerminates ==
    /\ [](/\ driver.seedRuns <= attempts
          /\ driver.pc = "seed" =>
                driver.seedRuns = driver.index - 1 /\ driver.seedDelays = driver.index - 1
          /\ driver.pc = "delay" =>
                /\ driver.seedRuns = driver.index
                /\ driver.seedDelays = driver.index - 1
                /\ driver.index < attempts
          /\ SeedReturned =>
                driver.seedRuns = driver.index /\ driver.seedDelays = driver.seedRuns - 1
          /\ SeedGaveUp =>
                /\ driver.seedRuns = attempts
                /\ driver.seedDelays = attempts - 1
                /\ driver.exitCode = Some(1)
                /\ driver.apiProcess = "none"
                /\ ~driver.healthRan
                /\ ~driver.smokeRan)
    /\ [][/\ driver'.seedRuns # driver.seedRuns =>
                /\ driver.pc = "seed"
                /\ driver'.seedRuns = driver.seedRuns + 1
                /\ driver'.pc \in {"spawn", "delay", "exit"}
                /\ driver'.pc = "exit" <=> (driver.index = attempts /\ driver'.error = Some("seed"))
          /\ driver'.seedDelays # driver.seedDelays =>
                /\ driver.pc = "delay"
                /\ driver'.seedDelays = driver.seedDelays + 1
                /\ driver'.pc = "seed"]_vars
    /\ (InSeedLoop ~> ~InSeedLoop)

\* All eight seed runs failed and the driver has exited.
C25_Witness == SeedGaveUp /\ driver.seedRuns = attempts

(***************************************************************************)
(* The API child of the driver and the health wait.                        *)
(***************************************************************************)
\* main() is awaiting Promise.race([waitForHealth(...), apiFailed]).
HealthWaiting == driver.pc = "race"

\* The API child was spawned.
Launched == driver.apiProcess # "none"

\* The ways main() ends once the child is spawned.
LaunchedOutcomes == {None, Some("smoke"), Some("health_timeout"), Some("api_failed")}

\* C26: once the API child is spawned, main() always reaches its finally
\* block and calls kill on the child exactly once before the driver exits,
\* whether the smoke checks passed, the smoke checks failed, the health wait
\* timed out or the child exited with a non-zero code first.  The health wait
\* always ends: with the first successful health response (then the smoke
\* checks run), with the rejection of apiFailed, or with the timeout error
\* once 45 seconds have passed.
C26_ChildAlwaysSignalled ==
    /\ [](/\ driver.pc = "exit" /\ Launched =>
                /\ driver.killCalls = 1
                /\ driver.error \in LaunchedOutcomes
                /\ driver.exitCode = Some(IF driver.error = None THEN 0 ELSE 1)
          /\ driver.pc # "exit" => driver.killCalls = 0
          /\ driver.error = Some("health_timeout") =>
                driver.waited >= healthTimeoutSeconds /\ ~driver.smokeRan
          /\ driver.error = Some("api_failed") => apiFailed(driver) /\ ~driver.smokeRan
          /\ driver.waited < healthTimeoutSeconds + pollDelaySeconds + fetchTimeoutSeconds)
    /\ [][HealthWaiting /\ ~HealthWaiting' =>
            \/ driver'.pc = "smoke" /\ driver.apiProcess = "listening"
            \/ driver'.pc = "finally" /\ driver'.error = Some("api_failed") /\ apiFailed(driver)
            \/ /\ driver'.pc = "finally"
               /\ driver'.error = Some("health_timeout")
               /\ driver.waited >= healthTimeoutSeconds]_vars
    /\ (HealthWaiting ~> ~HealthWaiting)
    /\ (Launched ~> (driver.pc = "exit" /\ driver.killCalls = 1))

\* The child exited with a non-zero code before it was healthy, and the
\* driver has called kill on it and exited.
C26_Witness ==
    /\ driver.pc = "exit"
    /\ driver.apiProcess = "exitN"
    /\ driver.error = Some("api_failed")
    /\ driver.killCalls = 1

(***************************************************************************)
(* Ownership of SecurityAnchor.                                            *)
(***************************************************************************)
\* The OwnershipTransferred events emitted so far, oldest first: the one of
\* the constructor, then one per successful transferOwnership.
OwnershipEvents(st) ==
    SelectSeq(st.events, LAMBDA e : e.name = "OwnershipTransferred")

\* The account the most recent OwnershipTransferred event names as new owner:
\* the deployer until a transferOwnership call has succeeded, from then on the
\* argument of the most recent successful call.
LastNamedOwner(st) == OwnershipEvents(st)[Len(OwnershipEvents(st))].newOwner

\* C27: the owner of SecurityAnchor is never the zero address.  It is the
\* deployer after construction; transferOwnership(0) called by the owner is
\* rejected and leaves the contract unchanged; a successful transferOwnership
\* makes its argument the owner and every other call leaves the owner alone,
\* so the owner is always the deployer or the argument of the most recent
\* successful transferOwnership.
C27_OwnerNeverZero ==
    /\ [](/\ chain.owner # ZeroAddress
          /\ chain.owner = LastNamedOwner(chain)
          /\ Len(OwnershipEvents(chain)) = 1 => chain.owner = Deployer)
    /\ [][/\ (receipt'.fn = "transferOwnership" /\ receipt'.sender = chain.owner
                /\ receipt'.newOwner = ZeroAddress)
              => receipt'.status = "zero address" /\ chain' = chain
          /\ (receipt'.fn = "transferOwnership" /\ receipt'.status = "ok")
              => /\ receipt'.newOwner # ZeroAddress
                 /\ chain'.owner = receipt'.newOwner
                 /\ Len(OwnershipEvents(chain')) = Len(OwnershipEvents(chain)) + 1
          /\ ~(receipt'.fn = "transferOwnership" /\ receipt'.status = "ok")
              => chain'.owner = chain.owner]_vars

\* After ownership moved away from the deployer, the new owner's
\* transferOwnership(0) was rejected.
C27_Witness ==
    /\ chain.owner # Deployer
    /\ receipt.fn = "transferOwnership"
    /\ receipt.sender = chain.owner
    /\ receipt.newOwner = ZeroAddress
    /\ receipt.status = "zero address"

(***************************************************************************)
(* Re-registration of an auditor, under Spec.                              *)
(***************************************************************************)
\* The auditors rows stored under an address.
AuditorRows(d, address) == SelectSeq(d.auditors, LAMBDA r : r.address = address)

\* The submission bodies signed by an address whose audit is valid, not yet
\* stored, and whose signature verifies.
GoodSubmissions(d, address) ==
    {b \in SubmissionBodies :
        /\ IsSome(b.audit) /\ IsSome(b.signature)
        /\ validator(Get(b.audit))
        /\ isAddress(Get(b.signature).signer)
        /\ getAddress(Get(b.signature).signer) = address
        /\ verifyAuditSignature(Get(b.audit),
                [signer |-> address,
                 signature |-> Get(b.signature).signature,
                 scheme |-> IF IsSome(Get(b.signature).scheme)
                            THEN Get(Get(b.signature).scheme) ELSE "eip191",
                 signedAt |-> Get(b.signature).signedAt]).ok
        /\ ~auditExists(d, Get(b.audit).auditId)}

\* C28: POST /v1/auditors with a valid body stores, under the checksummed
\* address, exactly the request's name (trimmed), website, identity,
\* publicKey and active flag, an omitted active counting as true, in place of
\* whatever was stored for that address; every other row of every table is
\* left as it was.  So for a registered, deactivated auditor a request
\* without active makes the stored flag true, and the submissions it signs
\* that were refused as auditor_inactive are answered 201 afterwards.
C28_ReRegistrationOverwrites ==
    /\ [](\A p \in AuditorPayloads :
            LET r == postAuditors(db, p)
                a == getAddress(p.address)
            IN r.response.status = 200 =>
                /\ AuditorRows(r.db, a) =
                      << [address |-> a, name |-> trim(p.name), website |-> p.website,
                          identity |-> p.identity, publicKey |-> p.publicKey,
                          active |-> (p.active # Some(FALSE))] >>
                /\ Len(r.db.auditors) =
                      Len(db.auditors) + (IF AuditorRows(db, a) = <<>> THEN 1 ELSE 0)
                /\ \A i \in 1..Len(db.auditors) :
                      db.auditors[i].address # a => r.db.auditors[i] = db.auditors[i]
                /\ [r.db EXCEPT !.auditors = db.auditors] = db
                /\ (p.active = None /\ AuditorRows(db, a) # <<>> /\ ~AuditorRows(db, a)[1].active)
                      => \A b \in GoodSubmissions(db, a) :
                            /\ postSubmissions(db, b).response.error = "auditor_inactive"
                            /\ postSubmissions(r.db, b).response.status = 201)
    /\ [][\A p \in AuditorPayloads :
            response'.route = "POST /v1/auditors" /\ PostAuditor(p) =>
                db' = postAuditors(db, p).db]_vars

\* Two auditors are registered, 0xAa deactivated with a website on record,
\* and a submission it signed, for an audit not yet stored, was just refused
\* as auditor_inactive.
C28_Witness ==
    /\ GoodSubmissions(db, AddrA) # {}
    /\ AuditorRows(db, AddrA) # <<>>
    /\ ~AuditorRows(db, AddrA)[1].active
    /\ IsSome(AuditorRows(db, AddrA)[1].website)
    /\ AuditorRows(db, AddrB) # <<>>
    /\ response.error = "auditor_inactive"

(***************************************************************************)
(* The contract's roots against the stored anchor records, under SpecOps.  *)
(***************************************************************************)
\* The transaction hash of the accepted anchor transaction of an audit.
AnchorTxHash(st, auditId) ==
    1000 + (CHOOSE i \in AnchoredEvents(st, keccak256Id(auditId)) : TRUE)

\* C29 (as claimed): whenever the contract holds a root for a stored audit
\* and no anchor request for it is between its transaction and its insert,
\* the store holds an anchor record of that audit with the contract's root
\* and the hash of the accepted transaction.
C29_ChainAndStoreAgree ==
    \A a \in AuditIds :
        (/\ chain.auditRoots[keccak256Id(a)] # Bytes32Zero
         /\ auditExists(db, a)
         /\ InflightOf(a) = {})
        => \E i \in 1..Len(listAnchors(db, a)) :
              /\ listAnchors(db, a)[i].merkle_root = chain.auditRoots[keccak256Id(a)]
              /\ listAnchors(db, a)[i].tx_hash = AnchorTxHash(chain, a)

(***************************************************************************)
(* The dashboard page (ClientPage).                                        *)
(*                                                                         *)
(* audits is the loaded list of audit ids; audit, findings and anchors are *)
(* the loaded responses, each tagged with the audit id it was requested    *)
(* for (a 404 gives null).  loads are the loadAudit calls awaiting their   *)
(* responses, each with the active flag of its effect run; anchoring are   *)
(* the handleAnchor calls in flight, each with the selectedAuditId of the  *)
(* render it was started from.  State set in one callback is committed in  *)
(* one render, and the effects whose dependencies changed run with it.     *)
(***************************************************************************)
MaxAnchorCalls == 1     \* handleAnchor calls in flight at a time
MaxRefreshes == 1       \* refreshAudits calls in flight at a time

\* Responses of GET /v1/audits?limit=25&offset=0: the ids listed, newest first.
AuditLists == {<<>>, <<1>>, <<2>>, <<2, 1>>, <<1, 2>>}

\* A response of an audit route requested for auditId.
For(auditId) == Some([auditId |-> auditId])

\* const selectedAuditId = auditParam ?? audits?.items?.[0]?.auditId
selectedAuditId(u) ==
    IF IsSome(u.auditParam) THEN u.auditParam
    ELSE IF IsSome(u.audits) /\ Get(u.audits) # <<>> THEN Some(Get(u.audits)[1])
    ELSE None

\* The effect on [selectedAuditId, apiStatus]: the cleanup of the previous
\* run clears its active flag; the body resets the three values when there
\* is no selection or the API is offline, and starts loadAudit otherwise.
loadAuditEffect(u) ==
    LET cleaned == {[l EXCEPT !.active = FALSE] : l \in u.loads} IN
    IF ~IsSome(selectedAuditId(u)) \/ u.apiStatus # "online"
    THEN [u EXCEPT !.audit = None, !.findings = None, !.anchors = None,
                   !.loads = cleaned]
    ELSE [u EXCEPT !.loads = cleaned \cup
                        {[auditId |-> Get(selectedAuditId(u)), active |-> TRUE]}]

\* The effect on [selectedAuditId]: the anchor status returns to idle.
anchorStatusEffect(u) == [u EXCEPT !.anchorStatus = "idle"]

\* The render that follows a state change from old to new, with the effects
\* whose dependencies changed.
render(old, new) ==
    LET reset == IF selectedAuditId(new) # selectedAuditId(old)
                 THEN anchorStatusEffect(new) ELSE new
    IN IF selectedAuditId(new) # selectedAuditId(old) \/ new.apiStatus # old.apiStatus
       THEN loadAuditEffect(reset)
       ELSE reset

\* loadAudit after its Promise.all settled, for a call of an effect run l.
loadAuditSettled(u, l, threw, found, anchored) ==
    LET rest == [u EXCEPT !.loads = @ \ {l}] IN
    IF ~l.active THEN rest
    ELSE IF threw THEN [rest EXCEPT !.apiStatus = "offline"]
    ELSE [rest EXCEPT !.audit = IF found THEN For(l.auditId) ELSE None,
                      !.findings = IF found THEN For(l.auditId) ELSE None,
                      !.anchors = IF anchored THEN For(l.auditId) ELSE None]

\* handleAnchor with the re-fetched history dropped when the selection moved.
handleAnchorRefetched_guarded(u, c, found) ==
    IF selectedAuditId(u) # Some(c.auditId)
    THEN [u EXCEPT !.anchoring = @ \ {c}]
    ELSE [u EXCEPT !.anchoring = @ \ {c},
                   !.anchors = IF found THEN For(c.auditId) ELSE None]

\* handleAnchor after its fetchJson of the anchor history resolved:
\* setAnchors(refreshed), for the audit id of the call.
handleAnchorRefetched(u, c, found) ==
    [u EXCEPT !.anchoring = @ \ {c},
              !.anchors = IF found THEN For(c.auditId) ELSE None]

InitPage ==
    /\ chain = Constructor(Deployer)
    /\ receipt = NoReceipt
    /\ db = EmptyDb
    /\ response = NoResponse
    /\ conn = NoConns
    /\ seed = NoSeed
    /\ env = NoEnv
    /\ inflight = NoInflight
    /\ proofAudit = NoAudit
    /\ canonInput = NoValue
    /\ driver = DriverIdle
    /\ \E auditParam \in {None, Some(1)} :
          ui = loadAuditEffect([PageIdle EXCEPT !.auditParam = auditParam,
                                                !.bootstrap = "pending"])

PageRest == <<chain, receipt, db, response, conn, seed, env, inflight, proofAudit, canonInput, driver>>

\* bootstrap(): both lists arrived, or one of the requests failed.
Bootstrap ==
    /\ ui.bootstrap = "pending"
    /\ \/ \E list \in AuditLists :
            ui' = render(ui, [ui EXCEPT !.bootstrap = "done", !.audits = Some(list),
                                        !.apiStatus = "online"])
       \/ ui' = render(ui, [ui EXCEPT !.bootstrap = "done", !.apiStatus = "offline"])
    /\ UNCHANGED PageRest

\* loadAudit(): the three responses arrived (each found or 404), or one of
\* the requests failed.
LoadAudit ==
    /\ \E l \in ui.loads, threw \in BOOLEAN, found \in BOOLEAN, anchored \in BOOLEAN :
          /\ threw => found /\ anchored
          /\ ui' = render(ui, loadAuditSettled(ui, l, threw, found, anchored))
    /\ UNCHANGED PageRest

\* handleAnchor() up to its postJson.
HandleAnchor ==
    /\ IsSome(selectedAuditId(ui))
    /\ Cardinality(ui.anchoring) < MaxAnchorCalls
    /\ ui' = [ui EXCEPT !.anchorStatus = "anchoring",
                        !.anchoring = @ \cup {[auditId |-> Get(selectedAuditId(ui)),
                                               pc |-> "post"]}]
    /\ UNCHANGED PageRest

\* handleAnchor(): the anchor request was answered.
HandleAnchorPosted ==
    /\ \E c \in ui.anchoring, ok \in BOOLEAN :
          /\ c.pc = "post"
          /\ ui' = IF ok
                   THEN [ui EXCEPT !.anchorStatus = "success",
                                   !.anchoring = (@ \ {c}) \cup {[c EXCEPT !.pc = "refetch"]}]
                   ELSE [ui EXCEPT !.anchorStatus = "error", !.anchoring = @ \ {c}]
    /\ UNCHANGED PageRest

\* handleAnchor(): the re-fetch of the anchor history resolved, or threw
\* (the rejection is not handled and sets nothing).
HandleAnchorRefetched ==
    /\ \E c \in ui.anchoring, threw \in BOOLEAN, found \in BOOLEAN :
          /\ c.pc = "refetch"
          /\ threw => found
          /\ ui' = IF threw THEN [ui EXCEPT !.anchoring = @ \ {c}]
                   ELSE handleAnchorRefetched(ui, c, found)
    /\ UNCHANGED PageRest

\* refreshAudits() up to its fetchJson (called after a signed submission).
RefreshAudits ==
    /\ ui.bootstrap = "done"
    /\ ui.refreshing < MaxRefreshes
    /\ ui' = [ui EXCEPT !.refreshing = @ + 1]
    /\ UNCHANGED PageRest

\* refreshAudits(): the list arrived, or the request failed.
RefreshAuditsSettled ==
    /\ ui.refreshing > 0
    /\ \/ \E list \in AuditLists :
            ui' = render(ui, [ui EXCEPT !.refreshing = @ - 1, !.audits = Some(list)])
       \/ ui' = render(ui, [ui EXCEPT !.refreshing = @ - 1, !.apiStatus = "offline"])
    /\ UNCHANGED PageRest

NextPage ==
    \/ Bootstrap
    \/ LoadAudit
    \/ HandleAnchor
    \/ HandleAnchorPosted
    \/ HandleAnchorRefetched
    \/ RefreshAudits
    \/ RefreshAuditsSettled

SpecPage == InitPage /\ [][NextPage]_vars

\* A loaded value is null or was requested for the selected audit.
OfSelected(u, value) == IsSome(value) => Some(Get(value).auditId) = selectedAuditId(u)

\* C30 (as claimed): every step that sets the audit, the findings or the
\* anchor history of the page sets it to null or to a response requested for
\* the audit selected at that moment, for the loads of the selection effect
\* and for the re-fetch of handleAnchor alike.
C30_StateOfSelectedAudit ==
    [][/\ ui'.audit # ui.audit => OfSelected(ui', ui'.audit)
       /\ ui'.findings # ui.findings => OfSelected(ui', ui'.findings)
       /\ ui'.anchors # ui.anchors => OfSelected(ui', ui'.anchors)]_vars
====
